---- MODULE Spec2Model ----
(***************************************************************************)
(* Tabular Q-Learning and SARSA grid-world environments                    *)
(* (QLearningEnvironment in lib/qLearning.ts, SARSAEnvironment in          *)
(* lib/sarsa.ts), modelled as one environment instance whose public        *)
(* methods are called in any order.                                        *)
(*                                                                         *)
(* Numbers: the code computes in IEEE doubles.  The model computes in      *)
(* exact rationals <<n, d>> (d > 0, lowest terms); <<1, 0>> and <<-1, 0>>  *)
(* stand for Infinity and -Infinity.  Floating-point rounding is not       *)
(* modelled.                                                               *)
(***************************************************************************)
EXTENDS Integers, Sequences, FiniteSets, TLC

\* ------------------------------------------------------------------------
\* Bounds of the model
\* ------------------------------------------------------------------------

\* Executed (non-terminal) steps explored in one behaviour of the Q-Learning
\* environment.
MaxQSteps == 3

\* Executed (non-terminal) steps explored in one behaviour of the SARSA
\* environment, whose random initial action makes it branch more.
MaxSSteps == 2

\* Executed steps explored in one behaviour that calls train().
MaxTrainSteps == 4

\* The greatest config.maxEpisodes of the explored training configurations.
MaxTrainEpisodes == 2

\* Calls of normalize() explored between two resets.
MaxNormalizeCalls == 3

\* The greatest count a multi-episode run of the page is started with.
MaxUiEpisodes == 2

\* ------------------------------------------------------------------------
\* Exact arithmetic standing for the code's number type.  A number is a
\* rational <<n, d>> in lowest terms (d > 0; d = 0 for the infinities and
\* NaN), or a sum of square roots <<n, d, ts>>: the rational n/d plus, for
\* every entry <<k, c>> of the non-empty sequence ts, the rational c times
\* the square root of k.  The radicands k are square-free, greater than 1
\* and ascending, and no coefficient c is zero.
\* ------------------------------------------------------------------------

Abs(x) == IF x < 0 THEN -x ELSE x

RECURSIVE GCD(_, _)
GCD(a, b) == IF b = 0 THEN a ELSE GCD(b, a % b)

\* n/d in lowest terms with a positive denominator (d # 0).
Norm(n, d) ==
    LET s == IF d < 0 THEN -1 ELSE 1
        g == GCD(Abs(n), Abs(d))
    IN  IF n = 0 THEN <<0, 1>> ELSE <<(s * n) \div g, (s * d) \div g>>

R(n) == <<n, 1>>
Zero == <<0, 1>>
Infinity == <<1, 0>>
NegInfinity == <<-1, 0>>

\* A number as its terms <<k, c>>, ascending in k, the rational part being
\* the term of radicand 1; and back.
Terms(a) ==
    LET rat == IF a[1] = 0 THEN <<>> ELSE <<<<1, <<a[1], a[2]>>>>>>
    IN  IF Len(a) = 2 THEN rat ELSE rat \o a[3]
Number(ts) ==
    IF ts = <<>> THEN Zero
    ELSE IF ts[1][1] # 1 THEN <<0, 1, ts>>
    ELSE IF Len(ts) = 1 THEN ts[1][2]
    ELSE <<ts[1][2][1], ts[1][2][2], Tail(ts)>>

\* The sum and the product of two finite rationals.  The sum goes through
\* the least common denominator and the product cancels crosswise, which
\* keeps the intermediate integers small.
RatAdd(a, b) ==
    LET g == GCD(a[2], b[2])
    IN  Norm(a[1] * (b[2] \div g) + b[1] * (a[2] \div g), (a[2] \div g) * b[2])
RatMul(a, b) ==
    LET g1 == GCD(Abs(a[1]), b[2])
        g2 == GCD(Abs(b[1]), a[2])
    IN  IF a[1] = 0 \/ b[1] = 0 THEN <<0, 1>>
        ELSE <<(a[1] \div g1) * (b[1] \div g2), (a[2] \div g2) * (b[2] \div g1)>>

RECURSIVE TermsAdd(_, _)
RECURSIVE TermsMul(_, _)
RECURSIVE TermsSign(_)
RECURSIVE TermsInverse(_)

\* +, -, *, < and / of the number type on finite numbers; < also when
\* exactly one side is infinite.
RAdd(a, b) ==
    IF Len(a) = 2 /\ Len(b) = 2 THEN RatAdd(a, b)
    ELSE Number(TermsAdd(Terms(a), Terms(b)))
RMul(a, b) ==
    IF Len(a) = 2 /\ Len(b) = 2 THEN RatMul(a, b)
    ELSE Number(TermsMul(Terms(a), Terms(b)))
RNeg(a) ==
    IF Len(a) = 2 THEN <<-a[1], a[2]>>
    ELSE <<-a[1], a[2],
           [i \in 1 .. Len(a[3]) |->
              <<a[3][i][1], <<-a[3][i][2][1], a[3][i][2][2]>>>>]>>
RSub(a, b) == RAdd(a, RNeg(b))
RLt(a, b) ==
    IF Len(a) = 2 /\ Len(b) = 2
      THEN LET g == GCD(a[2], b[2])
           IN  a[1] * (b[2] \div g) < b[1] * (a[2] \div g)
    ELSE IF Len(a) = 2 /\ a[2] = 0 THEN a[1] < 0
    ELSE IF Len(b) = 2 /\ b[2] = 0 THEN b[1] > 0
    ELSE TermsSign(Terms(RSub(b, a))) = 1
RDiv(a, b) ==
    IF Len(a) = 2 /\ Len(b) = 2 THEN Norm(a[1] * b[2], a[2] * b[1])
    ELSE Number(TermsMul(Terms(a), TermsInverse(Terms(b))))
RAbs(a) == IF RLt(a, Zero) THEN RNeg(a) ELSE a
\* Math.min / Math.max of a running bound (possibly infinite) and a finite r.
MathMin(a, b) == IF RLt(b, a) THEN b ELSE a
MathMax(a, b) == IF RLt(a, b) THEN b ELSE a

\* The sum of two sums of terms.
TermsAdd(s, t) ==
    IF s = <<>> THEN t
    ELSE IF t = <<>> THEN s
    ELSE IF s[1][1] < t[1][1] THEN <<s[1]>> \o TermsAdd(Tail(s), t)
    ELSE IF t[1][1] < s[1][1] THEN <<t[1]>> \o TermsAdd(s, Tail(t))
    ELSE LET c == RatAdd(s[1][2], t[1][2])
         IN  (IF c = Zero THEN <<>> ELSE <<<<s[1][1], c>>>>)
               \o TermsAdd(Tail(s), Tail(t))

\* The product of two sums of terms, term by term:
\* c1 sqrt(k1) * c2 sqrt(k2) = c1 c2 g sqrt((k1/g)(k2/g)), g = gcd(k1, k2).
TermsMul(s, t) ==
    IF s = <<>> \/ t = <<>> THEN <<>>
    ELSE IF Len(s) = 1 /\ Len(t) = 1
      THEN LET g == GCD(s[1][1], t[1][1])
           IN  <<<<(s[1][1] \div g) * (t[1][1] \div g),
                   RatMul(RatMul(s[1][2], t[1][2]), R(g))>>>>
    ELSE LET bySecond == Len(s) = 1
         IN  TermsAdd(TermsMul(IF bySecond THEN s ELSE <<s[1]>>,
                               IF bySecond THEN <<t[1]>> ELSE t),
                      TermsMul(IF bySecond THEN s ELSE Tail(s),
                               IF bySecond THEN Tail(t) ELSE t))

\* ts = x + y sqrt(p) for the least prime p of the greatest radicand of
\* ts: x holds the terms whose radicand p does not divide, y the others
\* with p taken out of the radicand, and conj is x - y sqrt(p).
SplitAtRoot(ts) ==
    LET k == ts[Len(ts)][1]
        p == CHOOSE f \in 2 .. k :
                 k % f = 0 /\ \A g \in 2 .. f - 1 : k % g # 0
        sel == SelectSeq(ts, LAMBDA t : t[1] % p = 0)
    IN  [x |-> SelectSeq(ts, LAMBDA t : t[1] % p # 0),
         y |-> [i \in 1 .. Len(sel) |-> <<sel[i][1] \div p, sel[i][2]>>],
         conj |-> [i \in 1 .. Len(ts) |->
                     IF ts[i][1] % p = 0
                       THEN <<ts[i][1], <<-ts[i][2][1], ts[i][2][2]>>>>
                       ELSE ts[i]]]

\* Rationals lo <= ts <= hi, from rationals around the root of every
\* radicand, as close as the integers of the model allow.
RECURSIVE TermsBounds(_)
TermsBounds(ts) ==
    IF ts = <<>> THEN [lo |-> Zero, hi |-> Zero]
    ELSE LET RECURSIVE IntSqrtFrom(_, _)
             IntSqrtFrom(n, x) ==
                 LET y == (x + n \div x) \div 2
                 IN  IF y >= x THEN x ELSE IntSqrtFrom(n, y)
             k == ts[1][1]
             D == IF k <= 2000 THEN 1024 ELSE IF k <= 2000000 THEN 32 ELSE 1
             r == IntSqrtFrom(k * D * D, k * D * D)
             below == IF k = 1 THEN R(1) ELSE <<r, D>>
             above == IF k = 1 THEN R(1) ELSE <<r + 1, D>>
             c == ts[1][2]
             rest == TermsBounds(Tail(ts))
         IN  [lo |-> RatAdd(RatMul(c, IF c[1] > 0 THEN below ELSE above), rest.lo),
              hi |-> RatAdd(RatMul(c, IF c[1] > 0 THEN above ELSE below), rest.hi)]

\* The sign (-1, 0, 1) of a sum of terms: the one its bounds show, else
\* found exactly: x + y sqrt(p) with x and y of opposite signs has the sign
\* of x when x^2 > p y^2, else the sign of y; x^2 - p y^2 is the product of
\* the sum and its conjugate.
TermsSign(ts) ==
    LET Exact(sp, sx, sy) ==
            IF sx = 0 THEN sy
            ELSE IF sx = sy THEN sx
            ELSE sx * TermsSign(TermsMul(ts, sp.conj))
        SplitSign(sp) == Exact(sp, TermsSign(sp.x), TermsSign(sp.y))
        Within(b) ==
            IF b.lo[1] > 0 THEN 1
            ELSE IF b.hi[1] < 0 THEN -1
            ELSE SplitSign(SplitAtRoot(ts))
    IN  IF ts = <<>> THEN 0
        ELSE IF ts[Len(ts)][1] = 1
          THEN (IF ts[1][2][1] < 0 THEN -1 ELSE 1)
        ELSE Within(TermsBounds(ts))

\* 1 / ts for ts # 0: 1 / (x + y sqrt(p)) = (x - y sqrt(p)) / (x^2 - p y^2).
TermsInverse(ts) ==
    IF ts[Len(ts)][1] = 1
      THEN <<<<1, Norm(ts[1][2][2], ts[1][2][1])>>>>
    ELSE LET Over(conj) == TermsMul(conj, TermsInverse(TermsMul(ts, conj)))
         IN  Over(SplitAtRoot(ts).conj)

\* Math.sqrt of a rational a >= 0: sqrt(n/d) = s sqrt(k) / d, where
\* n d = s^2 k and k is square-free.  The root of a sum of square roots is
\* outside the numbers represented.
MathSqrt(a) ==
    LET RECURSIVE SquarePart(_, _)
        SquarePart(m, f) ==
            IF f * f > m THEN 1
            ELSE IF m % (f * f) = 0 THEN f * SquarePart(m \div (f * f), f)
            ELSE SquarePart(m, f + 1)
        s == SquarePart(a[1] * a[2], 2)
        k == (a[1] * a[2]) \div (s * s)
    IN  CASE Len(a) = 2 /\ a[1] = 0 -> Zero
          [] Len(a) = 2 /\ a[1] > 0 /\ k = 1 -> Norm(s, a[2])
          [] Len(a) = 2 /\ a[1] > 0 /\ k > 1 -> <<0, 1, <<<<k, Norm(s, a[2])>>>>>>

\* The number type's NaN.
NaN == <<0, 0>>

\* a / n for a finite a and a count n: 0 / 0 is NaN, x / 0 is infinite.
DivByCount(a, n) ==
    IF n = 0
      THEN IF a = Zero THEN NaN ELSE IF RLt(Zero, a) THEN Infinity ELSE NegInfinity
      ELSE RMul(a, <<1, n>>)

\* Mutant of JsLess: a <= b.
JsLessOrEqual(a, b) == a # NaN /\ b # NaN /\ ~RLt(b, a)

\* a < b of the number type: false when either side is NaN.
JsLess(a, b) == a # NaN /\ b # NaN /\ RLt(a, b)

RECURSIVE RPow(_, _)
RPow(a, k) == IF k = 0 THEN R(1) ELSE RMul(a, RPow(a, k - 1))

\* Math.max(...xs) over a non-empty sequence of numbers.
RECURSIVE MaxOfSeq(_)
MaxOfSeq(xs) ==
    IF Len(xs) = 1 THEN xs[1] ELSE MathMax(xs[1], MaxOfSeq(Tail(xs)))

\* ------------------------------------------------------------------------
\* Types: Action, Position, configuration
\* ------------------------------------------------------------------------

\* type Action, in the order every loop of the code enumerates it.
Actions == <<"up", "down", "left", "right">>
ActionSet == {"up", "down", "left", "right"}

Pos(r, c) == [row |-> r, col |-> c]

\* The TypeError a read or a write of a property of undefined ends with: a
\* row the grid or the SARSA table does not hold, a position that is
\* undefined.
TypeError == <<"TypeError">>

\* Steps allowed per episode (config.maxStepsPerEpisode) in the explored
\* configurations.
EpisodeSteps == 2

\* The grid layouts of the explored configurations: start, goal and hazards
\* inside the grid, hazards disjoint from start and goal.
Layouts ==
    { [gridSize |-> 2, startPosition |-> Pos(0, 0), goalPosition |-> Pos(1, 1),
       hazardPositions |-> {Pos(0, 1)}],
      [gridSize |-> 3, startPosition |-> Pos(0, 0), goalPosition |-> Pos(2, 2),
       hazardPositions |-> {Pos(1, 1)}] }

\* The exploration rates of the explored configurations: 0 and 1/2.
Epsilons == {Zero, <<1, 2>>}

\* interface QLearningConfig with the constructor's defaults filled in.
BaseConfig(layout, eps) ==
    [gridSize |-> layout.gridSize,
     startPosition |-> layout.startPosition,
     goalPosition |-> layout.goalPosition,
     hazardPositions |-> layout.hazardPositions,
     rewardPositions |-> <<>>,
     learningRate |-> <<1, 2>>,
     discountFactor |-> <<9, 10>>,
     epsilon |-> eps,
     epsilonDecay |-> R(1),
     minEpsilon |-> Zero,
     rewards |-> [goal |-> R(10), hazard |-> R(-10), step |-> R(-1)],
     useDirectionalHeuristics |-> FALSE,
     heuristicWeight |-> <<1, 10>>,
     heuristicMethod |-> "manhattan",
     normalizeRewards |-> FALSE,
     normalizationMethod |-> "minmax",
     convergenceThreshold |-> <<1, 10000>>,
     maxEpisodes |-> 2,
     maxStepsPerEpisode |-> EpisodeSteps]

\* The configurations an environment is constructed with.
Configs == {BaseConfig(l, e) : l \in Layouts, e \in Epsilons}

\* CHALLENGING_CONFIG scaled to a grid of two rows: its hazards at (1, 2)
\* and (2, 1) lie one column and one row outside the grid, as (9, 10) and
\* (10, 9) do on its grid of ten rows.
ChallengingConfig ==
    BaseConfig([gridSize |-> 2, startPosition |-> Pos(0, 0),
                goalPosition |-> Pos(1, 1),
                hazardPositions |-> {Pos(1, 2), Pos(2, 1)}], Zero)

\* The Partial<QLearningConfig> arguments of updateConfig: a new layout
\* (which may grow or shrink the grid) or a new exploration rate.
Patches == Layouts \cup {[epsilon |-> e] : e \in Epsilons}

\* { ...this.config, ...newConfig }
Merge(cfg, patch) ==
    [f \in DOMAIN cfg |-> IF f \in DOMAIN patch THEN patch[f] ELSE cfg[f]]

Methods == {"qlearning", "sarsa"}

\* A layout whose goal is the cell below the start.
EpisodeLayout ==
    [gridSize |-> 2, startPosition |-> Pos(0, 0), goalPosition |-> Pos(1, 0),
     hazardPositions |-> {Pos(1, 1)}]

\* The rewardPositions lists of the explored configurations: none, one
\* bonus on an empty cell, and bonuses on the hazard, on the goal and on an
\* empty cell.
RewardPositionLists ==
    { <<>>,
      <<[position |-> Pos(0, 1), reward |-> R(5)]>>,
      <<[position |-> Pos(1, 1), reward |-> R(5)],
        [position |-> Pos(2, 2), reward |-> R(5)],
        [position |-> Pos(1, 0), reward |-> R(3)]>> }

\* The heuristic settings of the explored configurations: disabled, or
\* enabled with weight 0, 1/2 or 1 under the manhattan, euclidean or
\* chebyshev metric.
HeuristicSettings ==
    { [useDirectionalHeuristics |-> FALSE, heuristicWeight |-> <<1, 10>>,
       heuristicMethod |-> "manhattan"] }
    \cup { [useDirectionalHeuristics |-> TRUE, heuristicWeight |-> w,
            heuristicMethod |-> m] :
              w \in {Zero, <<1, 2>>, R(1)},
              m \in {"manhattan", "euclidean", "chebyshev"} }

\* Configurations for the study of rewards: a 3x3 grid with one hazard,
\* exploration rate 1/2, every rewardPositions list and heuristic setting.
RewardConfigs ==
    { Merge(Merge(BaseConfig([gridSize |-> 3, startPosition |-> Pos(0, 0),
                              goalPosition |-> Pos(2, 2),
                              hazardPositions |-> {Pos(1, 1)}], <<1, 2>>),
                  [rewardPositions |-> rps]), h) :
        rps \in RewardPositionLists, h \in HeuristicSettings }

\* Configurations for the study of episodes: the goal next to the start,
\* every step limit from 0 to EpisodeSteps, with and without a floor of the
\* exploration rate (config.minEpsilon 0 and 1/4).
EpisodeConfigs ==
    { Merge(BaseConfig(EpisodeLayout, e),
            [minEpsilon |-> m, maxStepsPerEpisode |-> n]) :
        e \in Epsilons, m \in {Zero, <<1, 4>>}, n \in 0 .. EpisodeSteps }

\* Configurations for the study of train().  Layouts: a goal next to the
\* start, and a hazard next to the start.  Exploration schedules: epsilon,
\* epsilonDecay and minEpsilon.  Convergence thresholds: 1/2 and 1.
\* Normalization: none, min-max and z-score.  1 to MaxTrainEpisodes episodes
\* of 0 to EpisodeSteps steps.
TrainConfigs ==
    { Merge(Merge(Merge(BaseConfig(l, sch.epsilon), sch), nz),
            [convergenceThreshold |-> th, maxEpisodes |-> me,
             maxStepsPerEpisode |-> ms]) :
        l \in { EpisodeLayout,
                [gridSize |-> 2, startPosition |-> Pos(0, 0),
                 goalPosition |-> Pos(1, 1), hazardPositions |-> {Pos(0, 1)}] },
        sch \in { [epsilon |-> <<1, 2>>, epsilonDecay |-> <<1, 2>>,
                   minEpsilon |-> <<3, 8>>],
                  [epsilon |-> <<1, 2>>, epsilonDecay |-> <<1, 2>>,
                   minEpsilon |-> Zero],
                  [epsilon |-> <<1, 2>>, epsilonDecay |-> R(1),
                   minEpsilon |-> Zero],
                  [epsilon |-> Zero, epsilonDecay |-> <<1, 2>>,
                   minEpsilon |-> <<1, 4>>] },
        th \in {<<1, 2>>, R(1)},
        nz \in { [normalizeRewards |-> FALSE, normalizationMethod |-> "minmax"],
                 [normalizeRewards |-> TRUE, normalizationMethod |-> "minmax"],
                 [normalizeRewards |-> TRUE, normalizationMethod |-> "zscore"] },
        me \in 1 .. MaxTrainEpisodes,
        ms \in 0 .. EpisodeSteps }

\* The rewards normalize() is called with.
NormalizeInputs == {R(-10), R(-1), R(1), R(2), R(3)}

\* Configurations for the study of normalize(): normalization enabled and
\* disabled, under the min-max and the z-score method.
NormalizeConfigs ==
    { Merge(BaseConfig(EpisodeLayout, Zero),
            [normalizeRewards |-> nz, normalizationMethod |-> m]) :
        nz \in BOOLEAN, m \in {"minmax", "zscore"} }

InGrid(cfg, pos) ==
    /\ pos.row \in 0 .. cfg.gridSize - 1
    /\ pos.col \in 0 .. cfg.gridSize - 1

Cells(cfg) == {Pos(r, c) : r \in 0 .. cfg.gridSize - 1, c \in 0 .. cfg.gridSize - 1}

\* pos is the goal cell of the configuration.
IsGoal(cfg, pos) ==
    pos.row = cfg.goalPosition.row /\ pos.col = cfg.goalPosition.col

\* hazardPositions.some(h => h.row === pos.row && h.col === pos.col)
IsHazard(cfg, pos) ==
    \E h \in cfg.hazardPositions : h.row = pos.row /\ h.col = pos.col

\* ------------------------------------------------------------------------
\* QLearningEnvironment: pure parts
\* ------------------------------------------------------------------------

ZeroQ == [a \in ActionSet |-> Zero]

\* QLearningEnvironment.initializeGrid: Cell[][] with every qValue 0.
QInitializeGrid(cfg) ==
    [r \in 0 .. cfg.gridSize - 1 |->
        [c \in 0 .. cfg.gridSize - 1 |->
            [type |-> IF r = cfg.startPosition.row /\ c = cfg.startPosition.col
                        THEN "start"
                      ELSE IF r = cfg.goalPosition.row /\ c = cfg.goalPosition.col
                        THEN "goal"
                      ELSE IF \E h \in cfg.hazardPositions : h.row = r /\ h.col = c
                        THEN "hazard"
                      ELSE "empty",
             qValues |-> ZeroQ]]]

\* Mutant of QValidTest: the lower and right bounds are off by one.
QValidTestOffByOne(cfg, pos, a) ==
    CASE a = "up" -> pos.row > 0
      [] a = "down" -> pos.row < cfg.gridSize
      [] a = "left" -> pos.col > 0
      [] a = "right" -> pos.col < cfg.gridSize

\* QLearningEnvironment.getValidActions: the pushes, in order.
QValidTest(cfg, pos, a) ==
    CASE a = "up" -> pos.row > 0
      [] a = "down" -> pos.row < cfg.gridSize - 1
      [] a = "left" -> pos.col > 0
      [] a = "right" -> pos.col < cfg.gridSize - 1

QGetValidActions(cfg, pos) ==
    SelectSeq(Actions, LAMBDA a : QValidTest(cfg, pos, a))

\* QLearningEnvironment.getNextPosition: no clamping.
QGetNextPosition(pos, a) ==
    CASE a = "up" -> Pos(pos.row - 1, pos.col)
      [] a = "down" -> Pos(pos.row + 1, pos.col)
      [] a = "left" -> Pos(pos.row, pos.col - 1)
      [] a = "right" -> Pos(pos.row, pos.col + 1)

\* rewardPositions.find(...): the bonus of the first entry at pos, else 0.
RECURSIVE RewardBonus(_, _)
RewardBonus(rps, pos) ==
    IF rps = <<>> THEN Zero
    ELSE IF Head(rps).position.row = pos.row /\ Head(rps).position.col = pos.col
      THEN Head(rps).reward
    ELSE RewardBonus(Tail(rps), pos)

\* QLearningEnvironment.rawReward
RawReward(cfg, pos) ==
    IF IsGoal(cfg, pos) THEN cfg.rewards.goal
    ELSE IF IsHazard(cfg, pos) THEN cfg.rewards.hazard
    ELSE RAdd(cfg.rewards.step, RewardBonus(cfg.rewardPositions, pos))

\* QLearningEnvironment.calculateDistance: manhattan, euclidean, chebyshev,
\* and manhattan for any other heuristicMethod.
CalculateDistance(cfg, p1, p2) ==
    LET dr == Abs(p1.row - p2.row)
        dc == Abs(p1.col - p2.col)
    IN  CASE cfg.heuristicMethod = "euclidean" -> MathSqrt(R(dr * dr + dc * dc))
          [] cfg.heuristicMethod = "chebyshev" -> R(IF dr > dc THEN dr ELSE dc)
          [] OTHER -> R(dr + dc)

\* QLearningEnvironment.calculateHeuristicReward; heuristicWeight || 0.1.
CalculateHeuristicReward(cfg, cur, next) ==
    IF ~cfg.useDirectionalHeuristics THEN Zero
    ELSE LET improvement == RSub(CalculateDistance(cfg, cur, cfg.goalPosition),
                                 CalculateDistance(cfg, next, cfg.goalPosition))
             w == IF cfg.heuristicWeight = Zero THEN <<1, 10>>
                  ELSE cfg.heuristicWeight
         IN  RMul(improvement, w)

\* The z-score branch of normalize: r joins the history; the value is
\* (r - mean) / sd over the whole history, or 0 when sd is not positive.
ZScore(hist, r) ==
    LET RECURSIVE SumOfSeq(_)
        SumOfSeq(xs) ==
            IF xs = <<>> THEN Zero ELSE RAdd(xs[1], SumOfSeq(Tail(xs)))
        h == Append(hist, r)
        Scaled(mean, sd) ==
            IF RLt(Zero, sd) THEN RDiv(RSub(r, mean), sd) ELSE Zero
        Deviation(mean, sq) ==
            Scaled(mean, MathSqrt(DivByCount(SumOfSeq(sq), Len(h))))
        Value(mean) ==
            Deviation(mean, [i \in 1 .. Len(h) |-> RPow(RSub(h[i], mean), 2)])
    IN  [value |-> Value(DivByCount(SumOfSeq(h), Len(h))), history |-> h]

\* Mutant of Normalize: the distance to the maximum instead of the distance
\* from the minimum.
NormalizeInverted(cfg, lo, hi, hist, r) ==
    IF ~cfg.normalizeRewards
      THEN [value |-> r, min |-> lo, max |-> hi, history |-> hist]
    ELSE LET newLo == MathMin(lo, r)
             newHi == MathMax(hi, r)
             range == RSub(newHi, newLo)
         IN  IF cfg.normalizationMethod = "zscore"
               THEN [value |-> ZScore(hist, r).value, min |-> newLo,
                     max |-> newHi, history |-> ZScore(hist, r).history]
               ELSE [value |-> IF RLt(Zero, range)
                                 THEN RDiv(RSub(newHi, r), range)
                               ELSE Zero,
                     min |-> newLo, max |-> newHi, history |-> hist]

\* QLearningEnvironment.normalize: the value it returns, and the running
\* minimum, the running maximum and the reward history it leaves.
Normalize(cfg, lo, hi, hist, r) ==
    IF ~cfg.normalizeRewards
      THEN [value |-> r, min |-> lo, max |-> hi, history |-> hist]
    ELSE LET WithZScore(newLo, newHi, z) ==
                 [value |-> z.value, min |-> newLo, max |-> newHi,
                  history |-> z.history]
             WithRange(newLo, newHi, range) ==
                 [value |-> IF RLt(Zero, range)
                              THEN RDiv(RSub(r, newLo), range)
                            ELSE Zero,
                  min |-> newLo, max |-> newHi, history |-> hist]
             Within(newLo, newHi) ==
                 IF cfg.normalizationMethod = "zscore"
                   THEN WithZScore(newLo, newHi, ZScore(hist, r))
                   ELSE WithRange(newLo, newHi, RSub(newHi, newLo))
         IN  Within(MathMin(lo, r), MathMax(hi, r))

\* Mutant of ReduceBest: a later action replaces the best one on a tie.
RECURSIVE ReduceBestLastWins(_, _, _)
ReduceBestLastWins(q, acts, best) ==
    IF acts = <<>> THEN best
    ELSE ReduceBestLastWins(q, Tail(acts),
                            IF RLt(q[Head(acts)], q[best]) THEN best ELSE Head(acts))

\* actions.reduce((best, a) => q[a] > q[best] ? a : best, best)
RECURSIVE ReduceBest(_, _, _)
ReduceBest(q, acts, best) ==
    IF acts = <<>> THEN best
    ELSE ReduceBest(q, Tail(acts),
                    IF RLt(q[best], q[Head(acts)]) THEN Head(acts) ELSE best)

\* The greedy branch of QLearningEnvironment.chooseAction (undefined when
\* there is no valid action).
QGreedy(cfg, g, pos) ==
    LET acts == QGetValidActions(cfg, pos)
    IN  IF acts = <<>> THEN "undefined"
        ELSE ReduceBest(g[pos.row][pos.col].qValues, acts, acts[1])

\* The exploration branch: actions[Math.floor(Math.random()*actions.length)].
QExplore(cfg, pos) ==
    LET acts == QGetValidActions(cfg, pos)
    IN  IF acts = <<>> THEN {"undefined"} ELSE {acts[i] : i \in 1 .. Len(acts)}

\* QLearningEnvironment.chooseAction: every action it can return.
\* Math.random() < epsilon can hold iff epsilon > 0 and can fail iff
\* epsilon < 1.
QChooseAction(cfg, g, pos, epsilon) ==
    (IF RLt(Zero, epsilon) THEN QExplore(cfg, pos) ELSE {})
    \cup (IF RLt(epsilon, R(1)) THEN {QGreedy(cfg, g, pos)} ELSE {})

\* Mutant of QMaxNext: the maximum over all four actions of the successor.
QMaxNextAllActions(cfg, g, next) ==
    MaxOfSeq([i \in 1 .. 4 |-> g[next.row][next.col].qValues[Actions[i]]])

\* maxNext of QLearningEnvironment.updateQ
QMaxNext(cfg, g, next) ==
    LET acts == QGetValidActions(cfg, next)
    IN  IF Len(acts) > 0
          THEN MaxOfSeq([i \in 1 .. Len(acts) |-> g[next.row][next.col].qValues[acts[i]]])
          ELSE Zero

\* delta of QLearningEnvironment.updateQ
QDelta(cfg, g, pos, a, next, reward) ==
    RMul(cfg.learningRate,
         RSub(RAdd(reward, RMul(cfg.discountFactor, QMaxNext(cfg, g, next))),
              g[pos.row][pos.col].qValues[a]))

\* QLearningEnvironment.updateQ: the grid after the assignment.
UpdateQ(cfg, g, pos, a, next, reward) ==
    [g EXCEPT ![pos.row][pos.col].qValues[a] =
        RAdd(g[pos.row][pos.col].qValues[a], QDelta(cfg, g, pos, a, next, reward))]

\* QLearningEnvironment.getBestValidAction
QGetBestValidAction(cfg, g, pos) ==
    LET acts == QGetValidActions(cfg, pos)
    IN  IF Len(acts) = 0 THEN "null"
        ELSE ReduceBest(g[pos.row][pos.col].qValues, acts, acts[1])

\* QLearningEnvironment.getPolicy, the entry of cell pos.
QGetPolicy(cfg, g, pos) ==
    LET acts == QGetValidActions(cfg, pos)
    IN  IF acts = <<>> THEN "undefined"
        ELSE ReduceBest(g[pos.row][pos.col].qValues, acts, acts[1])


\* ------------------------------------------------------------------------
\* SARSAEnvironment: pure parts
\* ------------------------------------------------------------------------

\* SARSAEnvironment.initializeGrid: CellType[][]; start, then goal, then the
\* hazards are written over 'empty'.  grid[pos.row][pos.col] = ... with a
\* row the grid does not hold ends in a TypeError; with a column the row
\* does not hold it adds that column to the row.
SInitializeGrid(cfg) ==
    LET written == {cfg.startPosition, cfg.goalPosition} \cup cfg.hazardPositions
    IN  IF \E p \in written : p.row \notin 0 .. cfg.gridSize - 1 THEN TypeError
        ELSE [r \in 0 .. cfg.gridSize - 1 |->
                [c \in (0 .. cfg.gridSize - 1)
                         \cup {p.col : p \in {q \in written : q.row = r}} |->
                    IF \E h \in cfg.hazardPositions : h.row = r /\ h.col = c
                      THEN "hazard"
                    ELSE IF r = cfg.goalPosition.row /\ c = cfg.goalPosition.col
                      THEN "goal"
                    ELSE IF r = cfg.startPosition.row /\ c = cfg.startPosition.col
                      THEN "start"
                    ELSE "empty"]]

\* Matrix.zeros(gridSize * gridSize * 4, 1), rows indexed from 0.
SZeroTable(cfg) == [i \in 0 .. cfg.gridSize * cfg.gridSize * 4 - 1 |-> Zero]

\* this.grid[row][col] where row is an index of the grid: undefined when
\* col is not an index of that row.
SCell(g, row, col) ==
    IF col \in DOMAIN g[row] THEN g[row][col] ELSE "undefined"

\* SARSAEnvironment.getActionIndex
GetActionIndex(a) ==
    CASE a = "up" -> 0 [] a = "down" -> 1 [] a = "left" -> 2 [] a = "right" -> 3

\* SARSAEnvironment.getStateIndex
GetStateIndex(cfg, pos) == pos.row * cfg.gridSize + pos.col

\* SARSAEnvironment.getQTableIndex
GetQTableIndex(cfg, pos, a) == GetStateIndex(cfg, pos) * 4 + GetActionIndex(a)

\* Matrix.get(index, 0) throws a TypeError when index is not a row of the
\* matrix: whether getQValue(pos, a) returns.
SReadable(cfg, qt, pos, a) == GetQTableIndex(cfg, pos, a) \in DOMAIN qt

\* SARSAEnvironment.getQValue, where it returns.
GetQValue(cfg, qt, pos, a) == qt[GetQTableIndex(cfg, pos, a)]

\* SARSAEnvironment.setQValue, where it returns.
SetQValue(cfg, qt, pos, a, v) == [qt EXCEPT ![GetQTableIndex(cfg, pos, a)] = v]

\* SARSAEnvironment.getValidActions: the pushes, in order (pos.row and its
\* in-bounds neighbours are rows of the grid).
SValidTest(cfg, g, pos, a) ==
    CASE a = "up" -> pos.row > 0 /\ SCell(g, pos.row - 1, pos.col) # "hazard"
      [] a = "down" -> pos.row < cfg.gridSize - 1
                       /\ SCell(g, pos.row + 1, pos.col) # "hazard"
      [] a = "left" -> pos.col > 0 /\ SCell(g, pos.row, pos.col - 1) # "hazard"
      [] a = "right" -> pos.col < cfg.gridSize - 1
                        /\ SCell(g, pos.row, pos.col + 1) # "hazard"

SGetValidActions(cfg, g, pos) ==
    SelectSeq(Actions, LAMBDA a : SValidTest(cfg, g, pos, a))

Min2(a, b) == IF a < b THEN a ELSE b
Max2(a, b) == IF a > b THEN a ELSE b

\* SARSAEnvironment.getNextPosition: clamped to the grid.
SGetNextPosition(cfg, pos, a) ==
    CASE a = "up" -> Pos(Max2(0, pos.row - 1), pos.col)
      [] a = "down" -> Pos(Min2(cfg.gridSize - 1, pos.row + 1), pos.col)
      [] a = "left" -> Pos(pos.row, Max2(0, pos.col - 1))
      [] a = "right" -> Pos(pos.row, Min2(cfg.gridSize - 1, pos.col + 1))

\* SARSAEnvironment.getReward
SGetReward(cfg, g, pos) ==
    LET cellType == SCell(g, pos.row, pos.col)
    IN  CASE cellType = "goal" -> cfg.rewards.goal
          [] cellType = "hazard" -> cfg.rewards.hazard
          [] OTHER -> cfg.rewards.step

\* SARSAEnvironment.chooseInitialAction: any of the four actions.
ChooseInitialAction == ActionSet

\* The loop of the exploitation branch: bestAction after scanning acts.
RECURSIVE SBestLoop(_, _, _, _, _)
SBestLoop(cfg, qt, pos, acts, best) ==
    IF acts = <<>> THEN best
    ELSE SBestLoop(cfg, qt, pos, Tail(acts),
                   IF RLt(GetQValue(cfg, qt, pos, best),
                          GetQValue(cfg, qt, pos, Head(acts)))
                     THEN Head(acts) ELSE best)

\* The exploitation branch of SARSAEnvironment.chooseAction, for a position
\* with valid actions whose table entries exist.
SGreedy(cfg, g, qt, pos) ==
    LET acts == SGetValidActions(cfg, g, pos)
    IN  SBestLoop(cfg, qt, pos, acts, acts[1])

\* Whether the exploitation branch returns: it reads the entry of every
\* valid action.
SGreedyReturns(cfg, g, qt, pos) ==
    LET acts == SGetValidActions(cfg, g, pos)
    IN  \A i \in 1 .. Len(acts) : SReadable(cfg, qt, pos, acts[i])

\* Mutant of SChooseAction: the fallback is missing, and at a position
\* without a valid action the first element of the empty list is returned.
SChooseActionNoFallback(cfg, g, qt, pos, epsilon) ==
    LET acts == SGetValidActions(cfg, g, pos)
    IN  IF Len(acts) = 0 THEN {"undefined"}
        ELSE (IF RLt(Zero, epsilon) THEN {acts[i] : i \in 1 .. Len(acts)} ELSE {})
             \cup (IF RLt(epsilon, R(1)) /\ SGreedyReturns(cfg, g, qt, pos)
                     THEN {SGreedy(cfg, g, qt, pos)} ELSE {})

\* SARSAEnvironment.chooseAction: every action it can return ('up' when no
\* action is valid).
SChooseAction(cfg, g, qt, pos, epsilon) ==
    LET acts == SGetValidActions(cfg, g, pos)
    IN  IF Len(acts) = 0 THEN {"up"}
        ELSE (IF RLt(Zero, epsilon) THEN {acts[i] : i \in 1 .. Len(acts)} ELSE {})
             \cup (IF RLt(epsilon, R(1)) /\ SGreedyReturns(cfg, g, qt, pos)
                     THEN {SGreedy(cfg, g, qt, pos)} ELSE {})

\* Whether chooseAction can throw: the exploitation branch is taken and
\* reads a missing table entry.
SChooseActionThrows(cfg, g, qt, pos, epsilon) ==
    /\ Len(SGetValidActions(cfg, g, pos)) > 0
    /\ RLt(epsilon, R(1))
    /\ ~SGreedyReturns(cfg, g, qt, pos)

\* SARSAEnvironment.getCurrentEpsilon; epsilonDecay || 1, minEpsilon || 0.
GetCurrentEpsilon(cfg, episodes) ==
    LET decay == IF cfg.epsilonDecay = Zero THEN R(1) ELSE cfg.epsilonDecay
    IN  MathMax(cfg.minEpsilon, RMul(cfg.epsilon, RPow(decay, episodes)))

\* Mutant of SNewQ: bootstraps from the greatest entry of the successor
\* state instead of the entry of the selected next action.
SNewQFromMax(cfg, qt, pos, a, nextPos, nextAction, reward) ==
    LET currentQ == GetQValue(cfg, qt, pos, a)
        nextQ == MaxOfSeq([i \in 1 .. 4 |-> GetQValue(cfg, qt, nextPos, Actions[i])])
    IN  RAdd(currentQ,
             RMul(cfg.learningRate,
                  RSub(RAdd(reward, RMul(cfg.discountFactor, nextQ)), currentQ)))

\* newQ of SARSAEnvironment.updateQValue
SNewQ(cfg, qt, pos, a, nextPos, nextAction, reward) ==
    LET currentQ == GetQValue(cfg, qt, pos, a)
        nextQ == GetQValue(cfg, qt, nextPos, nextAction)
    IN  RAdd(currentQ,
             RMul(cfg.learningRate,
                  RSub(RAdd(reward, RMul(cfg.discountFactor, nextQ)), currentQ)))

\* SARSAEnvironment.updateQValue: the table after setQValue.
UpdateQValue(cfg, qt, pos, a, nextPos, nextAction, reward) ==
    SetQValue(cfg, qt, pos, a, SNewQ(cfg, qt, pos, a, nextPos, nextAction, reward))

\* SARSAEnvironment.getBestValidAction
SGetBestValidAction(cfg, g, qt, pos) ==
    LET acts == SGetValidActions(cfg, g, pos)
    IN  IF Len(acts) = 0 THEN "null" ELSE SBestLoop(cfg, qt, pos, acts, acts[1])

\* SARSAEnvironment.getPolicy, the entry of cell pos (absent without valid
\* actions).
SGetPolicy(cfg, g, qt, pos) ==
    LET acts == SGetValidActions(cfg, g, pos)
    IN  IF Len(acts) > 0 THEN SBestLoop(cfg, qt, pos, acts, acts[1]) ELSE "absent"


\* ------------------------------------------------------------------------
\* State
\* ------------------------------------------------------------------------

VARIABLES
    method,           \* which class the factory constructed
    config,           \* this.config
    grid,             \* this.grid: Cell[][] (Q-Learning), CellType[][] (SARSA)
    qTable,           \* SARSA agent.qTable; <<>> in Q-Learning
    currentPosition,  \* this.currentPosition / agent.currentPosition
    currentAction,    \* SARSA agent.currentAction; "none" in Q-Learning
    episodeCount,     \* SARSA agent.episodeCount
    totalSteps,       \* SARSA agent.totalSteps
    minRewardSeen,    \* this.minRewardSeen
    maxRewardSeen,    \* this.maxRewardSeen
    rewardHistory,    \* this.rewardHistory
    pc,               \* "idle", or the method whose loop is running
    ep,               \* the locals of a running runEpisode
    lastResult,       \* what the most recent call returned
    lastUpdate,       \* the value update the latest transition made, if any:
                      \* its s, a, s', r (and a' in SARSA)
    committed,        \* SARSA: a' of the latest step since the last
                      \* resetPosition / reset / runEpisode, else "none"
    nSteps,           \* non-terminal step bodies executed so far
    ui                \* the page: its isRunning state and the runs in flight

envVars == <<config, grid, qTable, currentPosition, currentAction, episodeCount,
             totalSteps, minRewardSeen, maxRewardSeen, rewardHistory>>

vars == <<method, config, grid, qTable, currentPosition, currentAction,
          episodeCount, totalSteps, minRewardSeen, maxRewardSeen, rewardHistory,
          pc, ep, lastResult, lastUpdate, committed, nSteps, ui>>

\* The page as it is first rendered: isRunning false, no run in flight.
NoRuns == [isRunning |-> FALSE, runs |-> <<>>]

\* The value of (pos, a) in the value table of the current environment:
\* cell.qValues[action], or what getQValue(pos, action) returns or throws.
TableValue(pos, a) ==
    IF method = "qlearning" THEN grid[pos.row][pos.col].qValues[a]
    ELSE IF SReadable(config, qTable, pos, a) THEN GetQValue(config, qTable, pos, a)
    ELSE TypeError

\* The action whose value at the start cell is strictly above the values of
\* the three others, "none" when there is no such action.
StartFavours ==
    LET s == config.startPosition
        S == {a \in ActionSet :
                \A b \in ActionSet \ {a} : RLt(TableValue(s, b), TableValue(s, a))}
    IN  IF S = {} THEN "none" ELSE CHOOSE a \in S : TRUE

\* The locals of runEpisode at its entry; favoured records StartFavours at
\* the time of the call.
NewEpisode(start) ==
    [pos |-> start, steps |-> 0, totalReward |-> Zero,
     reachedGoal |-> FALSE, hitHazard |-> FALSE, history |-> <<>>,
     favoured |-> StartFavours]

NoEpisode == [steps |-> 0]

\* lastUpdate after a transition that made no value update.
NoUpdate == [seq |-> 0]

\* What a call returned: kind "null", "step" (a StepResult), "episode" (an
\* EpisodeResult), "void", or "threw" (the call ended in a TypeError); call
\* names the method that was called.
Null == [kind |-> "null", call |-> "step"]
Threw(call) == [kind |-> "threw", call |-> call]
Void(call) == [kind |-> "void", call |-> call]

\* A StepResult.
StepResult(s, a, n, r, goal, hazard) ==
    [state |-> s, action |-> a, nextState |-> n, reward |-> r,
     reachedGoal |-> goal, hitHazard |-> hazard]

\* The constructors: QLearningEnvironment(config), SARSAEnvironment(config),
\* as RLAlgorithmFactory.createEnvironment calls them.  The constructor of
\* SARSAEnvironment throws when its initializeGrid does, and then there is
\* no environment.
Constructed(cfgs) ==
    /\ method \in Methods
    /\ config \in cfgs
    /\ method = "sarsa" => SInitializeGrid(config) # TypeError
    /\ grid = IF method = "qlearning" THEN QInitializeGrid(config)
              ELSE SInitializeGrid(config)
    /\ qTable = IF method = "qlearning" THEN <<>> ELSE SZeroTable(config)
    /\ currentPosition = config.startPosition
    /\ currentAction \in IF method = "qlearning" THEN {"none"} ELSE ChooseInitialAction
    /\ episodeCount = 0
    /\ totalSteps = 0
    /\ minRewardSeen = Infinity
    /\ maxRewardSeen = NegInfinity
    /\ rewardHistory = <<>>
    /\ pc = "idle"
    /\ ep = NoEpisode
    /\ lastResult = [kind |-> "none", call |-> "constructor"]
    /\ lastUpdate = NoUpdate
    /\ committed = "none"
    /\ nSteps = 0
    /\ ui = NoRuns

Init == Constructed(Configs)

\* Environments constructed with the configurations of RewardConfigs.
InitReward == Constructed(RewardConfigs)

\* Q-Learning environments constructed with the configurations of
\* TrainConfigs.
InitTrain == Constructed(TrainConfigs) /\ method = "qlearning"

\* Q-Learning environments constructed with the configurations of
\* NormalizeConfigs.
InitNormalize == Constructed(NormalizeConfigs) /\ method = "qlearning"


\* The case of the switch in RLAlgorithmFactory.createEnvironment taken for
\* the method argument d.
FactoryCase(d) ==
    CASE d = "qlearning" -> "qlearning"
      [] d = "sarsa" -> "sarsa"
      [] OTHER -> "throw"

\* No environment has been created yet.
InitFactory ==
    /\ method = "none"
    /\ config = "none"
    /\ grid = <<>>
    /\ qTable = <<>>
    /\ currentPosition = "none"
    /\ currentAction = "none"
    /\ episodeCount = 0
    /\ totalSteps = 0
    /\ minRewardSeen = Infinity
    /\ maxRewardSeen = NegInfinity
    /\ rewardHistory = <<>>
    /\ pc = "idle"
    /\ ep = NoEpisode
    /\ lastResult = [kind |-> "none", call |-> "none"]
    /\ lastUpdate = NoUpdate
    /\ committed = "none"
    /\ nSteps = 0
    /\ ui = NoRuns

\* RLAlgorithmFactory.createEnvironment(d, cfg): the environment the caller
\* holds becomes the one returned; when the call throws (the default case
\* of the switch, or the constructor of SARSAEnvironment) the caller holds
\* what it held before.  d ranges over the two members of LearningMethod
\* and values outside the type.
CreateEnvironment ==
    /\ pc = "idle"
    /\ \E d \in {"qlearning", "sarsa", "dqn", "QLearning", ""},
          cfg \in Configs \cup {ChallengingConfig} :
         LET k == FactoryCase(d)
         IN  IF k = "throw"
               THEN /\ lastResult' = [kind |-> "threw", call |-> "createEnvironment",
                                      arg |-> d, config |-> cfg,
                                      error |-> "Unknown learning method"]
                    /\ UNCHANGED <<method, envVars, committed, nSteps>>
             ELSE IF k = "sarsa" /\ SInitializeGrid(cfg) = TypeError
               THEN /\ lastResult' = [kind |-> "threw", call |-> "createEnvironment",
                                      arg |-> d, config |-> cfg,
                                      error |-> "TypeError"]
                    /\ UNCHANGED <<method, envVars, committed, nSteps>>
               ELSE /\ method' = k
                    /\ config' = cfg
                    /\ grid' = IF k = "qlearning" THEN QInitializeGrid(cfg)
                               ELSE SInitializeGrid(cfg)
                    /\ qTable' = IF k = "qlearning" THEN <<>> ELSE SZeroTable(cfg)
                    /\ currentPosition' = cfg.startPosition
                    /\ currentAction' \in IF k = "qlearning" THEN {"none"}
                                          ELSE ChooseInitialAction
                    /\ episodeCount' = 0
                    /\ totalSteps' = 0
                    /\ minRewardSeen' = Infinity
                    /\ maxRewardSeen' = NegInfinity
                    /\ rewardHistory' = <<>>
                    /\ lastResult' = [kind |-> "created", call |-> "createEnvironment",
                                      arg |-> d, config |-> cfg]
                    /\ committed' = "none"
                    /\ nSteps' = 0
    /\ lastUpdate' = NoUpdate
    /\ UNCHANGED <<pc, ep>>
    /\ UNCHANGED ui

\* Environments constructed on layouts with a cell that has no valid
\* action for the SARSA environment, which does not count a move into a
\* hazard as valid: a start enclosed by hazards, on a grid of two and of
\* three rows, and on the latter also the corner (0, 2) enclosed by the
\* hazards at (0, 1) and (1, 2).
InitStuck ==
    Constructed({ BaseConfig(l, e) :
                    l \in { [gridSize |-> 2, startPosition |-> Pos(0, 0),
                             goalPosition |-> Pos(1, 1),
                             hazardPositions |-> {Pos(0, 1), Pos(1, 0)}],
                            [gridSize |-> 3, startPosition |-> Pos(0, 0),
                             goalPosition |-> Pos(2, 2),
                             hazardPositions |->
                                {Pos(0, 1), Pos(1, 0), Pos(1, 2)}] },
                    e \in Epsilons })

\* Environments constructed with the configurations of EpisodeConfigs.
InitEpisode == Constructed(EpisodeConfigs)

\* ------------------------------------------------------------------------
\* QLearningEnvironment: operations
\* ------------------------------------------------------------------------

\* Mutant of QTerminal: the goal test is missing.
QTerminalHazardOnly(cfg, pos) == IsHazard(cfg, pos)

\* Mutant of QTerminal: the hazard test is missing.
QTerminalGoalOnly(cfg, pos) == IsGoal(cfg, pos)

\* The test that opens QLearningEnvironment.step and each iteration of
\* runEpisode: pos is the goal or a hazard.
QTerminal(cfg, pos) == IsGoal(cfg, pos) \/ IsHazard(cfg, pos)

\* One chosen move of the Q-Learning agent from pos: what step() and an
\* iteration of runEpisode() compute before they differ.
QMove(cfg, g, pos, a) ==
    LET next == QGetNextPosition(pos, a)
        total == RAdd(RawReward(cfg, next),
                      CalculateHeuristicReward(cfg, pos, next))
    IN  [action |-> a, next |-> next, reward |-> total,
         grid |-> UpdateQ(cfg, g, pos, a, next, total)]

\* The body of one iteration of the inner loop of train() from pos with
\* action a: rewards, normalization and the value update.
QTrainMove(cfg, g, lo, hi, hist, pos, a) ==
    LET next == QGetNextPosition(pos, a)
        Learned(stepR, nz, used) ==
            [action |-> a, next |-> next, reward |-> stepR, normR |-> nz.value,
             used |-> used, min |-> nz.min, max |-> nz.max,
             history |-> nz.history,
             delta |-> RAbs(QDelta(cfg, g, pos, a, next, used)),
             grid |-> UpdateQ(cfg, g, pos, a, next, used)]
        Normalized(stepR, nz) ==
            Learned(stepR, nz, IF cfg.normalizeRewards THEN nz.value ELSE stepR)
        Rewarded(rawR, stepR) ==
            Normalized(stepR,
                       Normalize(cfg, lo, hi, hist,
                                 IF cfg.normalizeRewards THEN stepR ELSE rawR))
        Moved(rawR) ==
            Rewarded(rawR, RAdd(rawR, CalculateHeuristicReward(cfg, pos, next)))
    IN  Moved(RawReward(cfg, next))

\* QLearningEnvironment.step
QStep ==
    /\ method = "qlearning"
    /\ pc = "idle"
    /\ \/ /\ QTerminal(config, currentPosition)
          /\ lastResult' = Null
          /\ lastUpdate' = NoUpdate
          /\ UNCHANGED <<envVars, nSteps>>
       \/ /\ ~QTerminal(config, currentPosition)
          /\ ~InGrid(config, currentPosition)
          \* this.grid[pos.row][pos.col].qValues throws a TypeError
          /\ lastResult' = Threw("step")
          /\ lastUpdate' = NoUpdate
          /\ UNCHANGED <<envVars, nSteps>>
       \/ /\ ~QTerminal(config, currentPosition)
          /\ InGrid(config, currentPosition)
          /\ QGetValidActions(config, currentPosition) = <<>>
          \* chooseAction returns undefined, getNextPosition(pos, undefined)
          \* returns undefined, rawReward(undefined) throws a TypeError
          /\ lastResult' = Threw("step")
          /\ lastUpdate' = NoUpdate
          /\ UNCHANGED <<envVars, nSteps>>
       \/ /\ ~QTerminal(config, currentPosition)
          /\ InGrid(config, currentPosition)
          /\ QGetValidActions(config, currentPosition) # <<>>
          /\ nSteps < MaxQSteps
          /\ \E a \in QChooseAction(config, grid, currentPosition, config.epsilon) :
               LET m == QMove(config, grid, currentPosition, a)
               IN  /\ grid' = m.grid
                   /\ currentPosition' = m.next
                   /\ lastResult' =
                        [kind |-> "step", call |-> "step",
                         step |-> StepResult(currentPosition, a, m.next, m.reward,
                                             IsGoal(config, m.next),
                                             IsHazard(config, m.next))]
                   /\ lastUpdate' =
                        [seq |-> nSteps + 1, by |-> "step", state |-> currentPosition,
                         action |-> a, nextState |-> m.next, reward |-> m.reward,
                         nextAction |-> "none"]
          /\ nSteps' = nSteps + 1
          /\ UNCHANGED <<config, qTable, currentAction, episodeCount, totalSteps,
                         minRewardSeen, maxRewardSeen, rewardHistory>>
    /\ UNCHANGED <<method, pc, ep, committed>>
    /\ UNCHANGED ui

\* Mutant of QResetPosition: the grid is rebuilt as well.
QResetPositionAndValues ==
    /\ method = "qlearning"
    /\ pc = "idle"
    /\ currentPosition' = config.startPosition
    /\ grid' = QInitializeGrid(config)
    /\ lastResult' = Void("resetPosition")
    /\ lastUpdate' = NoUpdate
    /\ UNCHANGED <<method, config, qTable, currentAction, episodeCount,
                   totalSteps, minRewardSeen, maxRewardSeen, rewardHistory,
                   pc, ep, committed, nSteps>>
    /\ UNCHANGED ui

\* QLearningEnvironment.resetPosition
QResetPosition ==
    /\ method = "qlearning"
    /\ pc = "idle"
    /\ currentPosition' = config.startPosition
    /\ lastResult' = Void("resetPosition")
    /\ lastUpdate' = NoUpdate
    /\ UNCHANGED <<method, config, grid, qTable, currentAction, episodeCount,
                   totalSteps, minRewardSeen, maxRewardSeen, rewardHistory,
                   pc, ep, committed, nSteps>>
    /\ UNCHANGED ui

\* QLearningEnvironment.reset
QReset ==
    /\ method = "qlearning"
    /\ pc = "idle"
    /\ grid' = QInitializeGrid(config)
    /\ minRewardSeen' = Infinity
    /\ maxRewardSeen' = NegInfinity
    /\ rewardHistory' = <<>>
    /\ lastResult' = Void("reset")
    /\ lastUpdate' = NoUpdate
    /\ UNCHANGED <<method, config, qTable, currentPosition, currentAction,
                   episodeCount, totalSteps, pc, ep, committed, nSteps>>
    /\ UNCHANGED ui

\* QLearningEnvironment.updateConfig
QUpdateConfig ==
    /\ method = "qlearning"
    /\ pc = "idle"
    /\ \E patch \in Patches :
         /\ config' = Merge(config, patch)
         /\ grid' = QInitializeGrid(config')
    /\ lastResult' = Void("updateConfig")
    /\ lastUpdate' = NoUpdate
    /\ UNCHANGED <<method, qTable, currentPosition, currentAction,
                   episodeCount, totalSteps, minRewardSeen, maxRewardSeen,
                   rewardHistory, pc, ep, committed, nSteps>>
    /\ UNCHANGED ui

\* QLearningEnvironment.runEpisode, up to the loop.
QRunEpisodeCall ==
    /\ method = "qlearning"
    /\ pc = "idle"
    /\ nSteps + config.maxStepsPerEpisode <= MaxQSteps
    /\ pc' = "runEpisode"
    /\ ep' = NewEpisode(config.startPosition)
    /\ lastUpdate' = NoUpdate
    /\ UNCHANGED <<method, envVars, lastResult, committed, nSteps>>
    /\ UNCHANGED ui

\* One iteration of the loop of QLearningEnvironment.runEpisode that does
\* not break.  At a cell without a valid action chooseAction and
\* getNextPosition return undefined and rawReward(undefined) ends the call
\* in a TypeError, before anything is written.
QRunEpisodeIter ==
    /\ method = "qlearning"
    /\ pc = "runEpisode"
    /\ ep.steps < config.maxStepsPerEpisode
    /\ ~QTerminal(config, ep.pos)
    /\ \/ /\ QGetValidActions(config, ep.pos) = <<>>
          /\ pc' = "idle"
          /\ ep' = NoEpisode
          /\ lastResult' = Threw("runEpisode")
          /\ lastUpdate' = NoUpdate
          /\ UNCHANGED <<grid, nSteps>>
       \/ /\ QGetValidActions(config, ep.pos) # <<>>
          /\ \E a \in QChooseAction(config, grid, ep.pos, config.epsilon) :
               LET m == QMove(config, grid, ep.pos, a)
               IN  /\ grid' = m.grid
                   /\ ep' = [ep EXCEPT
                               !.history = Append(@, StepResult(ep.pos, a, m.next,
                                                                m.reward, FALSE, FALSE)),
                               !.totalReward = RAdd(@, m.reward),
                               !.pos = m.next,
                               !.steps = @ + 1]
                   /\ lastUpdate' =
                        [seq |-> nSteps + 1, by |-> "runEpisode", state |-> ep.pos,
                         action |-> a, nextState |-> m.next, reward |-> m.reward,
                         nextAction |-> "none"]
          /\ nSteps' = nSteps + 1
          /\ UNCHANGED <<pc, lastResult>>
    /\ UNCHANGED <<method, config, qTable, currentPosition, currentAction,
                   episodeCount, totalSteps, minRewardSeen, maxRewardSeen,
                   rewardHistory, committed>>
    /\ UNCHANGED ui

\* The exit of the loop of QLearningEnvironment.runEpisode (the step limit,
\* or a break on a terminal cell) and the return.
QRunEpisodeReturn ==
    /\ method = "qlearning"
    /\ pc = "runEpisode"
    /\ ep.steps >= config.maxStepsPerEpisode \/ QTerminal(config, ep.pos)
    /\ LET inLoop == ep.steps < config.maxStepsPerEpisode
           goal == inLoop /\ IsGoal(config, ep.pos)
           hazard == inLoop /\ ~IsGoal(config, ep.pos) /\ IsHazard(config, ep.pos)
       IN  lastResult' =
             [kind |-> "episode", call |-> "runEpisode", episode |-> 0, steps |-> ep.steps,
              totalReward |-> ep.totalReward, reachedGoal |-> goal,
              hitHazard |-> hazard, averageQChange |-> Zero,
              history |-> ep.history]
    /\ pc' = "idle"
    /\ ep' = NoEpisode
    /\ lastUpdate' = NoUpdate
    /\ UNCHANGED <<method, envVars, committed, nSteps>>
    /\ UNCHANGED ui

\* The locals of train() at the top of the body of its outer loop: the
\* episode number n, the exploration rate of the episode and the results
\* pushed so far.
TrainEpisode(n, eps, results) ==
    [n |-> n, epsilon |-> eps, results |-> results,
     pos |-> config.startPosition, history |-> <<>>, totalR |-> Zero,
     totalNormR |-> Zero, totalDelta |-> Zero]

\* What train() returned: its EpisodeResult[].
Trained(results) == [kind |-> "train", call |-> "train", results |-> results]

\* Mutant of TrainEpisodeGrid: the grid of the previous episode is kept.
TrainEpisodeGridKept(cfg, g) == g

\* this.grid = this.initializeGrid() at the top of every episode of train().
TrainEpisodeGrid(cfg, g) == QInitializeGrid(cfg)

\* Mutant of DecayEpsilon: the floor is missing.
DecayEpsilonNoFloor(cfg, eps) == RMul(eps, cfg.epsilonDecay)

\* Math.max(minEpsilon, eps * epsilonDecay), the rate of the next episode
\* of train().
DecayEpsilon(cfg, eps) == MathMax(cfg.minEpsilon, RMul(eps, cfg.epsilonDecay))

\* The call of QLearningEnvironment.train up to the first test of its outer
\* loop: with maxEpisodes >= 1 the first episode starts on a fresh grid,
\* otherwise the empty list is returned.
QTrainCall ==
    /\ method = "qlearning"
    /\ pc = "idle"
    /\ nSteps + config.maxEpisodes * config.maxStepsPerEpisode <= MaxTrainSteps
    /\ IF config.maxEpisodes >= 1
         THEN /\ pc' = "train"
              /\ ep' = TrainEpisode(1, config.epsilon, <<>>)
              /\ grid' = TrainEpisodeGrid(config, grid)
              /\ UNCHANGED lastResult
         ELSE /\ lastResult' = Trained(<<>>)
              /\ UNCHANGED <<pc, ep, grid>>
    /\ lastUpdate' = NoUpdate
    /\ UNCHANGED <<method, config, qTable, currentPosition, currentAction,
                   episodeCount, totalSteps, minRewardSeen, maxRewardSeen,
                   rewardHistory, committed, nSteps>>
    /\ UNCHANGED ui

\* One iteration of the inner loop of train() that does not break.  At a
\* cell without a valid action rawReward(undefined) ends the call in a
\* TypeError: the grid stays as the top of the episode rebuilt it and
\* nothing else has been written.
QTrainStep ==
    /\ method = "qlearning"
    /\ pc = "train"
    /\ Len(ep.history) < config.maxStepsPerEpisode
    /\ ~QTerminal(config, ep.pos)
    /\ \/ /\ QGetValidActions(config, ep.pos) = <<>>
          /\ pc' = "idle"
          /\ ep' = NoEpisode
          /\ lastResult' = Threw("train")
          /\ lastUpdate' = NoUpdate
          /\ UNCHANGED <<grid, minRewardSeen, maxRewardSeen, rewardHistory, nSteps>>
       \/ /\ QGetValidActions(config, ep.pos) # <<>>
          /\ \E a \in QChooseAction(config, grid, ep.pos, ep.epsilon) :
               LET Taken(m) ==
                   /\ grid' = m.grid
                   /\ minRewardSeen' = m.min
                   /\ maxRewardSeen' = m.max
                   /\ rewardHistory' = m.history
                   /\ ep' = [ep EXCEPT
                               !.pos = m.next,
                               !.history = Append(@,
                                  [state |-> ep.pos, action |-> a, nextState |-> m.next,
                                   reward |-> m.reward, normalizedReward |-> m.normR,
                                   reachedGoal |-> FALSE, hitHazard |-> FALSE]),
                               !.totalR = RAdd(@, m.reward),
                               !.totalNormR = RAdd(@, m.normR),
                               !.totalDelta = RAdd(@, m.delta)]
                   /\ lastUpdate' =
                        [seq |-> nSteps + 1, by |-> "train", state |-> ep.pos,
                         action |-> a, nextState |-> m.next, reward |-> m.used,
                         nextAction |-> "none", epsilon |-> ep.epsilon]
               IN  Taken(QTrainMove(config, grid, minRewardSeen, maxRewardSeen,
                                    rewardHistory, ep.pos, a))
          /\ nSteps' = nSteps + 1
          /\ UNCHANGED <<pc, lastResult>>
    /\ UNCHANGED <<method, config, qTable, currentPosition, currentAction,
                   episodeCount, totalSteps, committed>>
    /\ UNCHANGED ui

\* The exit of the inner loop of train() (the step limit, or a break on a
\* terminal cell), the decay of the exploration rate, the push of the
\* episode's result and the convergence test; then either the return or the
\* top of the next episode, which rebuilds the grid.
QTrainEpisodeEnd ==
    /\ method = "qlearning"
    /\ pc = "train"
    /\ Len(ep.history) >= config.maxStepsPerEpisode \/ QTerminal(config, ep.pos)
    /\ LET inLoop == Len(ep.history) < config.maxStepsPerEpisode
           reached == inLoop /\ IsGoal(config, ep.pos)
           hazard == inLoop /\ ~IsGoal(config, ep.pos) /\ IsHazard(config, ep.pos)
           avgDelta == DivByCount(ep.totalDelta, Len(ep.history))
           results == Append(ep.results,
                        [episode |-> ep.n, steps |-> Len(ep.history),
                         totalReward |-> ep.totalR,
                         totalNormalizedReward |->
                            IF config.normalizeRewards THEN ep.totalNormR
                            ELSE <<"undefined">>,
                         reachedGoal |-> reached, hitHazard |-> hazard,
                         averageQChange |-> avgDelta, history |-> ep.history])
       IN  IF JsLess(avgDelta, config.convergenceThreshold)
              \/ ep.n + 1 > config.maxEpisodes
             THEN /\ pc' = "idle"
                  /\ ep' = NoEpisode
                  /\ lastResult' = Trained(results)
                  /\ UNCHANGED grid
             ELSE /\ ep' = TrainEpisode(ep.n + 1, DecayEpsilon(config, ep.epsilon),
                                        results)
                  /\ grid' = TrainEpisodeGrid(config, grid)
                  /\ UNCHANGED <<pc, lastResult>>
    /\ lastUpdate' = NoUpdate
    /\ UNCHANGED <<method, config, qTable, currentPosition, currentAction,
                   episodeCount, totalSteps, minRewardSeen, maxRewardSeen,
                   rewardHistory, committed, nSteps>>
    /\ UNCHANGED ui

\* The arguments of the calls of normalize() since construction or the last
\* reset(), oldest first, as recorded with the latest call.
NormalizeSeen == IF lastResult.kind = "normalize" THEN lastResult.seen ELSE <<>>

\* One call of QLearningEnvironment.normalize with the reward r.
QNormalize ==
    /\ method = "qlearning"
    /\ pc = "idle"
    /\ Len(NormalizeSeen) < MaxNormalizeCalls
    /\ \E r \in NormalizeInputs :
         LET nz == Normalize(config, minRewardSeen, maxRewardSeen,
                             rewardHistory, r)
         IN  /\ minRewardSeen' = nz.min
             /\ maxRewardSeen' = nz.max
             /\ rewardHistory' = nz.history
             /\ lastResult' = [kind |-> "normalize", call |-> "normalize",
                               arg |-> r, value |-> nz.value,
                               seen |-> Append(NormalizeSeen, r)]
    /\ lastUpdate' = NoUpdate
    /\ UNCHANGED <<method, config, grid, qTable, currentPosition, currentAction,
                   episodeCount, totalSteps, pc, ep, committed, nSteps>>
    /\ UNCHANGED ui


\* ------------------------------------------------------------------------
\* SARSAEnvironment: operations
\* ------------------------------------------------------------------------

\* Mutant of SStepAction: the step selects an action for the current state
\* afresh (the first valid one) instead of using agent.currentAction.
SStepActionFresh ==
    LET acts == SGetValidActions(config, grid, currentPosition)
    IN  IF acts = <<>> THEN "up" ELSE acts[1]

\* The action SARSAEnvironment.step executes: agent.currentAction, never a
\* fresh selection.
SStepAction == currentAction

\* SARSAEnvironment.step: every way one call can end from the current
\* state.  kind "null": the agent stands on the goal or a hazard.  kind
\* "threw": a TypeError, either at this.grid[row][col] with row outside the
\* grid (touched FALSE: nothing was written) or at a read of a missing
\* qTable row after the reward statistics were written (touched TRUE).
\* kind "step": the call returns a StepResult.
SStepOutcomes ==
    LET pos == currentPosition
        a == SStepAction
    IN  IF pos.row \notin DOMAIN grid
          THEN {[kind |-> "threw", touched |-> FALSE]}
        ELSE IF SCell(grid, pos.row, pos.col) \in {"goal", "hazard"}
          THEN {[kind |-> "null", touched |-> FALSE]}
        ELSE
          LET nextPos == SGetNextPosition(config, pos, a)
              reward == SGetReward(config, grid, nextPos)
              eps == GetCurrentEpsilon(config, episodeCount)
              thrown == [kind |-> "threw", touched |-> TRUE, reward |-> reward]
          IN  (IF SChooseActionThrows(config, grid, qTable, nextPos, eps)
                 THEN {thrown} ELSE {})
              \cup
              { IF /\ SReadable(config, qTable, pos, a)
                   /\ SReadable(config, qTable, nextPos, na)
                  THEN [kind |-> "step", touched |-> TRUE, reward |-> reward,
                        nextAction |-> na,
                        qTable |-> UpdateQValue(config, qTable, pos, a, nextPos,
                                                na, reward),
                        step |-> StepResult(pos, a, nextPos, reward,
                                            SCell(grid, nextPos.row, nextPos.col) = "goal",
                                            SCell(grid, nextPos.row, nextPos.col) = "hazard")]
                  ELSE thrown
                : na \in SChooseAction(config, grid, qTable, nextPos, eps) }

\* The writes of one call of SARSAEnvironment.step that ends as outcome o.
SStepApply(o, by) ==
    /\ IF o.touched
         THEN /\ minRewardSeen' = MathMin(minRewardSeen, o.reward)
              /\ maxRewardSeen' = MathMax(maxRewardSeen, o.reward)
              /\ rewardHistory' = Append(rewardHistory, o.reward)
              /\ nSteps' = nSteps + 1
         ELSE UNCHANGED <<minRewardSeen, maxRewardSeen, rewardHistory, nSteps>>
    /\ IF o.kind = "step"
         THEN /\ qTable' = o.qTable
              /\ currentPosition' = o.step.nextState
              /\ currentAction' = o.nextAction
              /\ totalSteps' = totalSteps + 1
              /\ committed' = o.nextAction
              /\ lastUpdate' =
                   [seq |-> nSteps + 1, by |-> by, state |-> o.step.state,
                    action |-> o.step.action, nextState |-> o.step.nextState,
                    reward |-> o.reward, nextAction |-> o.nextAction,
                    committedBefore |-> committed]
         ELSE /\ lastUpdate' = NoUpdate
              /\ UNCHANGED <<qTable, currentPosition, currentAction, totalSteps,
                             committed>>
    /\ UNCHANGED <<config, grid>>

\* const maxSteps = this.config.maxStepsPerEpisode || 100
SMaxSteps(cfg) ==
    IF cfg.maxStepsPerEpisode = 0 THEN 100
    ELSE cfg.maxStepsPerEpisode

\* Whether outcome o fits the model's budget of executed step bodies.
WithinBudget(o) == IF o.touched THEN nSteps < MaxSSteps ELSE TRUE

\* SARSAEnvironment.step, called by the user of the environment.
SStep ==
    /\ method = "sarsa"
    /\ pc = "idle"
    /\ \E o \in SStepOutcomes :
         /\ WithinBudget(o)
         /\ SStepApply(o, "step")
         /\ lastResult' = IF o.kind = "step"
                            THEN [kind |-> "step", call |-> "step", step |-> o.step]
                          ELSE [kind |-> o.kind, call |-> "step"]
    /\ UNCHANGED <<method, episodeCount, pc, ep>>
    /\ UNCHANGED ui

\* SARSAEnvironment.setQValue(pos, action, value), called by the user of the
\* environment on the start or the goal cell: the write of one row of the
\* table (with the value 5), or a TypeError on a row the table does not
\* hold.  The call is counted in the budget of executed step bodies.
SSetQValue ==
    /\ method = "sarsa"
    /\ pc = "idle"
    /\ nSteps < MaxSSteps
    /\ \E pos \in {config.startPosition, config.goalPosition}, a \in ActionSet,
          v \in {R(5)} :
         IF SReadable(config, qTable, pos, a)
           THEN /\ qTable' = SetQValue(config, qTable, pos, a, v)
                /\ lastResult' = Void("setQValue")
           ELSE /\ qTable' = qTable
                /\ lastResult' = Threw("setQValue")
    /\ nSteps' = nSteps + 1
    /\ lastUpdate' = NoUpdate
    /\ UNCHANGED <<method, config, grid, currentPosition, currentAction,
                   episodeCount, totalSteps, minRewardSeen, maxRewardSeen,
                   rewardHistory, pc, ep, committed>>
    /\ UNCHANGED ui

\* SARSAEnvironment.resetPosition
SResetPosition ==
    /\ method = "sarsa"
    /\ pc = "idle"
    /\ currentPosition' = config.startPosition
    /\ currentAction' \in ChooseInitialAction
    /\ committed' = "none"
    /\ lastResult' = Void("resetPosition")
    /\ lastUpdate' = NoUpdate
    /\ UNCHANGED <<method, config, grid, qTable, episodeCount, totalSteps,
                   minRewardSeen, maxRewardSeen, rewardHistory, pc, ep,
                   nSteps>>
    /\ UNCHANGED ui

\* Mutant of SReset: the agent's table is kept.
SResetKeepsTable ==
    /\ method = "sarsa"
    /\ pc = "idle"
    /\ IF SInitializeGrid(config) = TypeError
         THEN /\ lastResult' = Threw("reset")
              /\ UNCHANGED <<grid, currentPosition, currentAction,
                             episodeCount, totalSteps, minRewardSeen,
                             maxRewardSeen, rewardHistory, committed>>
         ELSE /\ grid' = SInitializeGrid(config)
              /\ currentPosition' = config.startPosition
              /\ currentAction' \in ChooseInitialAction
              /\ episodeCount' = 0
              /\ totalSteps' = 0
              /\ minRewardSeen' = Infinity
              /\ maxRewardSeen' = NegInfinity
              /\ rewardHistory' = <<>>
              /\ committed' = "none"
              /\ lastResult' = Void("reset")
    /\ lastUpdate' = NoUpdate
    /\ UNCHANGED <<method, config, qTable, pc, ep, nSteps>>
    /\ UNCHANGED ui

\* SARSAEnvironment.reset (with initializeAgent); it ends in the TypeError
\* of initializeGrid, its first statement, before anything is written.
SReset ==
    /\ method = "sarsa"
    /\ pc = "idle"
    /\ IF SInitializeGrid(config) = TypeError
         THEN /\ lastResult' = Threw("reset")
              /\ UNCHANGED <<grid, qTable, currentPosition, currentAction,
                             episodeCount, totalSteps, minRewardSeen,
                             maxRewardSeen, rewardHistory, committed>>
         ELSE /\ grid' = SInitializeGrid(config)
              /\ qTable' = SZeroTable(config)
              /\ currentPosition' = config.startPosition
              /\ currentAction' \in ChooseInitialAction
              /\ episodeCount' = 0
              /\ totalSteps' = 0
              /\ minRewardSeen' = Infinity
              /\ maxRewardSeen' = NegInfinity
              /\ rewardHistory' = <<>>
              /\ committed' = "none"
              /\ lastResult' = Void("reset")
    /\ lastUpdate' = NoUpdate
    /\ UNCHANGED <<method, config, pc, ep, nSteps>>
    /\ UNCHANGED ui

\* SARSAEnvironment.updateConfig: the grid is rebuilt, the agent is kept.
\* The configuration is assigned first: when initializeGrid throws, the
\* environment holds the new configuration and the grid of the old one.
SUpdateConfig ==
    /\ method = "sarsa"
    /\ pc = "idle"
    /\ \E patch \in Patches :
         /\ config' = Merge(config, patch)
         /\ IF SInitializeGrid(config') = TypeError
              THEN grid' = grid /\ lastResult' = Threw("updateConfig")
              ELSE grid' = SInitializeGrid(config') /\ lastResult' = Void("updateConfig")
    /\ lastUpdate' = NoUpdate
    /\ UNCHANGED <<method, qTable, currentPosition, currentAction,
                   episodeCount, totalSteps, minRewardSeen, maxRewardSeen,
                   rewardHistory, pc, ep, committed, nSteps>>
    /\ UNCHANGED ui

\* Mutant of SRunEpisodeCall: the call starts from a new agent, as reset()
\* does.
SRunEpisodeCallResets ==
    /\ method = "sarsa"
    /\ pc = "idle"
    /\ nSteps < MaxSSteps
    /\ qTable' = SZeroTable(config)
    /\ currentPosition' = config.startPosition
    /\ currentAction' \in ChooseInitialAction
    /\ committed' = "none"
    /\ pc' = "runEpisode"
    /\ ep' = NewEpisode(config.startPosition)
    /\ lastUpdate' = NoUpdate
    /\ UNCHANGED <<method, config, grid, episodeCount, totalSteps,
                   minRewardSeen, maxRewardSeen, rewardHistory, lastResult,
                   nSteps>>
    /\ UNCHANGED ui

\* SARSAEnvironment.runEpisode, up to the loop: resetPosition and the locals.
\* An episode is started while the budget of step bodies is not used up,
\* whatever the table holds; its iterations stop where the budget ends.
SRunEpisodeCall ==
    /\ method = "sarsa"
    /\ pc = "idle"
    /\ nSteps < MaxSSteps
    /\ currentPosition' = config.startPosition
    /\ currentAction' \in ChooseInitialAction
    /\ committed' = "none"
    /\ pc' = "runEpisode"
    /\ ep' = NewEpisode(config.startPosition)
    /\ lastUpdate' = NoUpdate
    /\ UNCHANGED <<method, config, grid, qTable, episodeCount, totalSteps,
                   minRewardSeen, maxRewardSeen, rewardHistory, lastResult,
                   nSteps>>
    /\ UNCHANGED ui

\* One iteration of the loop of SARSAEnvironment.runEpisode whose step()
\* returns a StepResult, or throws (the exception leaves runEpisode).
SRunEpisodeIter ==
    /\ method = "sarsa"
    /\ pc = "runEpisode"
    /\ ep.steps < SMaxSteps(config)
    /\ \E o \in SStepOutcomes :
         /\ o.kind # "null"
         /\ WithinBudget(o)
         /\ SStepApply(o, "runEpisode")
         /\ IF o.kind = "step"
              THEN /\ ep' = [ep EXCEPT !.history = Append(@, o.step),
                                       !.totalReward = RAdd(@, o.reward),
                                       !.pos = o.step.nextState,
                                       !.steps = @ + 1]
                   /\ UNCHANGED <<pc, lastResult>>
              ELSE /\ ep' = NoEpisode
                   /\ pc' = "idle"
                   /\ lastResult' = Threw("runEpisode")
    /\ UNCHANGED <<method, episodeCount>>
    /\ UNCHANGED ui

\* The exit of the loop of SARSAEnvironment.runEpisode (the step limit, or
\* step() returning null) and the return.
SRunEpisodeReturn ==
    /\ method = "sarsa"
    /\ pc = "runEpisode"
    /\ \/ ep.steps >= SMaxSteps(config)
       \/ \E o \in SStepOutcomes : o.kind = "null"
    /\ LET inLoop == ep.steps < SMaxSteps(config)
           finalCell == SCell(grid, currentPosition.row, currentPosition.col)
       IN  lastResult' =
             [kind |-> "episode", call |-> "runEpisode", episode |-> episodeCount + 1, steps |-> ep.steps,
              totalReward |-> ep.totalReward,
              reachedGoal |-> (inLoop /\ finalCell = "goal"),
              hitHazard |-> (inLoop /\ finalCell = "hazard"),
              averageQChange |-> Zero,
              history |-> ep.history]
    /\ episodeCount' = episodeCount + 1
    /\ pc' = "idle"
    /\ ep' = NoEpisode
    /\ lastUpdate' = NoUpdate
    /\ UNCHANGED <<method, config, grid, qTable, currentPosition,
                   currentAction, totalSteps, minRewardSeen, maxRewardSeen,
                   rewardHistory, committed, nSteps>>
    /\ UNCHANGED ui

\* ------------------------------------------------------------------------
\* Specification
\* ------------------------------------------------------------------------

Next ==
    \/ QStep
    \/ QResetPosition
    \/ QReset
    \/ QUpdateConfig
    \/ QRunEpisodeCall
    \/ QRunEpisodeIter
    \/ QRunEpisodeReturn
    \/ SStep
    \/ SResetPosition
    \/ SReset
    \/ SUpdateConfig
    \/ SSetQValue
    \/ SRunEpisodeCall
    \/ SRunEpisodeIter
    \/ SRunEpisodeReturn

Spec == Init /\ [][Next]_vars

\* The environments of InitEpisode under step, resetPosition, reset and
\* runEpisode calls.
NextEpisode ==
    \/ QStep
    \/ QResetPosition
    \/ QReset
    \/ QRunEpisodeCall
    \/ QRunEpisodeIter
    \/ QRunEpisodeReturn
    \/ SStep
    \/ SResetPosition
    \/ SReset
    \/ SRunEpisodeCall
    \/ SRunEpisodeIter
    \/ SRunEpisodeReturn

SpecEpisode == InitEpisode /\ [][NextEpisode]_vars

\* The environments of InitReward under step and resetPosition calls.
NextReward ==
    \/ QStep
    \/ QResetPosition
    \/ SStep
    \/ SResetPosition

SpecReward == InitReward /\ [][NextReward]_vars

\* The calls explored on the environments of InitTrain: train(), repeated
\* or followed by reset().
NextTrain ==
    \/ QTrainCall
    \/ QTrainStep
    \/ QTrainEpisodeEnd
    \/ QReset

SpecTrain == InitTrain /\ [][NextTrain]_vars

\* The calls explored on the environments of InitNormalize: normalize() and
\* reset().
NextNormalize ==
    \/ QNormalize
    \/ QReset

SpecNormalize == InitNormalize /\ [][NextNormalize]_vars

\* The calls explored on the environments of InitStuck.
NextStuck ==
    \/ QStep
    \/ QResetPosition
    \/ QRunEpisodeCall
    \/ QRunEpisodeIter
    \/ QRunEpisodeReturn
    \/ QTrainCall
    \/ QTrainStep
    \/ QTrainEpisodeEnd
    \/ SStep
    \/ SResetPosition

SpecStuck == InitStuck /\ [][NextStuck]_vars

\* The factory, and steps of the environment it returned.
NextFactory ==
    \/ CreateEnvironment
    \/ QStep
    \/ SStep

SpecFactory == InitFactory /\ [][NextFactory]_vars


\* ------------------------------------------------------------------------
\* The page (app/page.tsx): its handlers and the runs they start
\* ------------------------------------------------------------------------

\* const maxSteps = 100 of the page's runEpisode.
UiMaxSteps == 100

\* The page after its first render and the reset of its mount effect.
InitUI == Constructed(Configs)

\* lastResult while a handler of the page is about to call the environment.
Pending == [kind |-> "pending", call |-> "none"]

\* A run in flight: kind "episode" (the animated loop of runEpisode) or
\* "multiple" (runMultipleEpisodes); phase "await" while it is suspended at
\* its await, otherwise the call its handler makes next ("toReset",
\* "toStep", "toEpisode"); steps and left are the loop's counters; detached
\* is TRUE once the page has replaced the environment the run steps.
NewRun(kind, phase, left) ==
    [kind |-> kind, phase |-> phase, steps |-> 0, left |-> left,
     detached |-> FALSE]

\* No handler is executing: every run in flight is suspended at its await,
\* and no method of the environment is running.
NoHandler ==
    /\ pc = "idle"
    /\ \A i \in 1 .. Len(ui.runs) : ui.runs[i].phase = "await"

RemoveAt(seq, i) ==
    [j \in 1 .. Len(seq) - 1 |-> IF j < i THEN seq[j] ELSE seq[j + 1]]

\* Mutant of IsRunningGuard: a click starts a run whatever isRunning is.
IsRunningGuardOff(flag) == TRUE

\* if (isRunning) return; and disabled={isRunning} of the buttons: a click
\* starts a run only when the rendered isRunning is false.
IsRunningGuard(flag) == ~flag

\* The frame of a handler step that calls nothing on the environment.
uiFrame == <<method, envVars, pc, ep, lastUpdate, committed, nSteps>>

\* The end of a run: setIsRunning(false) and the return of the async
\* function.
Finished(i) == [isRunning |-> FALSE, runs |-> RemoveAt(ui.runs, i)]

\* A call of the environment threw inside the async function: the promise
\* is rejected and setIsRunning(false) is never reached.
Rejected(i) == [ui EXCEPT !.runs = RemoveAt(ui.runs, i)]

\* Whether convertGridToCellFormat(environment.getGrid()) throws in a
\* render whose method is m and whose environment holds cfg, g and qt.  A
\* Q-Learning grid is returned as it is.  For SARSA
\* getQValuesForPosition({row, col}) is called for every column of every
\* row of the grid, and it ends in the TypeError of Matrix.get when a row
\* of the grid is so long that the table has no row for one of its
\* columns.
ConvertThrows(m, cfg, g, qt) ==
    /\ m = "sarsa"
    /\ \E r \in DOMAIN g : \E c \in DOMAIN g[r] : \E a \in ActionSet :
          ~SReadable(cfg, qt, Pos(r, c), a)

\* A click on "Run 1 Episode": runEpisode up to its call of resetPosition.
UIRunEpisodeClick ==
    /\ NoHandler
    /\ IsRunningGuard(ui.isRunning)
    /\ ui' = [isRunning |-> TRUE,
              runs |-> Append(ui.runs, NewRun("episode", "toReset", 0))]
    /\ lastResult' = Pending
    /\ UNCHANGED uiFrame

\* environment.resetPosition() of the page's runEpisode.
UICallResetPosition ==
    /\ \E i \in 1 .. Len(ui.runs) : ui.runs[i].phase = "toReset"
    /\ lastResult = Pending
    /\ QResetPosition \/ SResetPosition

\* After resetPosition: the first test of while (steps < maxSteps).
UIAfterResetPosition ==
    /\ pc = "idle"
    /\ lastResult # Pending
    /\ \E i \in 1 .. Len(ui.runs) :
         /\ ui.runs[i].phase = "toReset"
         /\ ui' = [ui EXCEPT !.runs[i].phase = "toStep"]
    /\ lastResult' = Pending
    /\ UNCHANGED uiFrame

\* environment.step() of the page's runEpisode.
UICallStep ==
    /\ \E i \in 1 .. Len(ui.runs) : ui.runs[i].phase = "toStep"
    /\ lastResult = Pending
    /\ QStep \/ SStep

\* After step(): break on null, otherwise steps++, updateGrid() and the
\* await.  A TypeError of step() or of updateGrid() rejects the promise.
UIAfterStep ==
    /\ pc = "idle"
    /\ lastResult # Pending
    /\ \E i \in 1 .. Len(ui.runs) :
         /\ ui.runs[i].phase = "toStep"
         /\ ui' = CASE lastResult.kind = "null" -> Finished(i)
                    [] lastResult.kind = "threw" -> Rejected(i)
                    [] ConvertThrows(method, config, grid, qTable) -> Rejected(i)
                    [] OTHER -> [ui EXCEPT !.runs[i].phase = "await",
                                           !.runs[i].steps = @ + 1]
    /\ UNCHANGED <<uiFrame, lastResult>>

\* The timer of the await fires in the page's runEpisode: the next test of
\* the loop.
UIRunEpisodeResume ==
    /\ NoHandler
    /\ \E i \in 1 .. Len(ui.runs) :
         /\ ui.runs[i].kind = "episode"
         /\ ~ui.runs[i].detached
         /\ IF ui.runs[i].steps < UiMaxSteps
              THEN /\ ui' = [ui EXCEPT !.runs[i].phase = "toStep"]
                   /\ lastResult' = Pending
              ELSE /\ ui' = Finished(i)
                   /\ UNCHANGED lastResult
    /\ UNCHANGED uiFrame

\* A click on a batch button: runMultipleEpisodes(count) up to its first
\* call of runEpisode.
UIRunMultipleClick ==
    /\ NoHandler
    /\ IsRunningGuard(ui.isRunning)
    /\ \E count \in 1 .. MaxUiEpisodes :
         ui' = [isRunning |-> TRUE,
                runs |-> Append(ui.runs, NewRun("multiple", "toEpisode", count))]
    /\ lastResult' = Pending
    /\ UNCHANGED uiFrame

\* environment.runEpisode() of runMultipleEpisodes: the call; the loop of
\* the episode and its return follow as steps of the environment.
UICallRunEpisode ==
    /\ \E i \in 1 .. Len(ui.runs) : ui.runs[i].phase = "toEpisode"
    /\ lastResult = Pending
    /\ QRunEpisodeCall \/ SRunEpisodeCall

\* After runEpisode() returned: the bookkeeping, updateGrid() and the
\* await.  A TypeError of runEpisode() or of updateGrid() rejects the
\* promise.
UIAfterEpisode ==
    /\ pc = "idle"
    /\ lastResult # Pending
    /\ \E i \in 1 .. Len(ui.runs) :
         /\ ui.runs[i].phase = "toEpisode"
         /\ ui' = IF \/ lastResult.kind = "threw"
                     \/ ConvertThrows(method, config, grid, qTable)
                    THEN Rejected(i)
                  ELSE [ui EXCEPT !.runs[i].phase = "await",
                                  !.runs[i].left = @ - 1]
    /\ UNCHANGED <<uiFrame, lastResult>>

\* The timer of the await fires in runMultipleEpisodes: the next test of
\* its loop.
UIRunMultipleResume ==
    /\ NoHandler
    /\ \E i \in 1 .. Len(ui.runs) :
         /\ ui.runs[i].kind = "multiple"
         /\ ~ui.runs[i].detached
         /\ IF ui.runs[i].left > 0
              THEN /\ ui' = [ui EXCEPT !.runs[i].phase = "toEpisode"]
                   /\ lastResult' = Pending
              ELSE /\ ui' = Finished(i)
                   /\ UNCHANGED lastResult
    /\ UNCHANGED uiFrame

\* handleConfigChange: environment.updateConfig(newConfig); no test of
\* isRunning, and the controls are never disabled.  The patches are the
\* Partial<QLearningConfig> arguments the hyperparameter controls pass: a
\* new exploration rate or a new learning rate.
UIConfigChange ==
    /\ NoHandler
    /\ \E patch \in {[epsilon |-> e] : e \in Epsilons}
                       \cup {[learningRate |-> <<1, 4>>]} :
         /\ config' = Merge(config, patch)
         /\ IF method = "sarsa" /\ SInitializeGrid(config') = TypeError
              THEN grid' = grid /\ lastResult' = Threw("updateConfig")
              ELSE /\ grid' = IF method = "qlearning" THEN QInitializeGrid(config')
                              ELSE SInitializeGrid(config')
                   /\ lastResult' = Void("updateConfig")
    /\ lastUpdate' = NoUpdate
    /\ UNCHANGED <<method, qTable, currentPosition, currentAction,
                   episodeCount, totalSteps, minRewardSeen, maxRewardSeen,
                   rewardHistory, pc, ep, committed, nSteps, ui>>

\* The page replaces its environment by createEnvironment(m, cfg), and its
\* effect calls resetEnvironment() on the new one; a run in flight keeps
\* stepping the environment it was started with, which the page no longer
\* holds.  createEnvironment is the first statement of the handler: when
\* it throws, no state of the page is set, the page keeps its environment
\* and a run in flight stays with it.  convertGridToCellFormat is called
\* after setEnvironment, in the handler (lines 57 and 70) with the method
\* and the environment of the render before the switch, and in
\* resetEnvironment (line 92) with the new ones: a TypeError there leaves
\* the new environment set and, at line 92, reset.
UINewEnvironment(m, cfg) ==
    /\ IF m = "sarsa" /\ SInitializeGrid(cfg) = TypeError
         THEN /\ lastResult' = Threw("createEnvironment")
              /\ UNCHANGED <<method, envVars, committed, ui>>
         ELSE /\ method' = m
              /\ config' = cfg
              /\ grid' = IF m = "qlearning" THEN QInitializeGrid(cfg)
                         ELSE SInitializeGrid(cfg)
              /\ qTable' = IF m = "qlearning" THEN <<>> ELSE SZeroTable(cfg)
              /\ currentPosition' = cfg.startPosition
              /\ currentAction' \in IF m = "qlearning" THEN {"none"}
                                    ELSE ChooseInitialAction
              /\ episodeCount' = 0
              /\ totalSteps' = 0
              /\ minRewardSeen' = Infinity
              /\ maxRewardSeen' = NegInfinity
              /\ rewardHistory' = <<>>
              /\ lastResult' = IF ConvertThrows(m, cfg, grid', qTable')
                                 THEN Threw("resetEnvironment")
                               ELSE Void("resetPosition")
              /\ committed' = "none"
              /\ ui' = [ui EXCEPT !.runs =
                          [i \in 1 .. Len(ui.runs) |->
                             [ui.runs[i] EXCEPT !.detached = TRUE]]]
    /\ lastUpdate' = NoUpdate
    /\ UNCHANGED <<pc, ep, nSteps>>

\* switchConfiguration(configType): a new environment of the current method
\* with one of the page's preset configurations, CHALLENGING_CONFIG among
\* them.
UISwitchConfiguration ==
    /\ NoHandler
    /\ \E cfg \in Configs \cup {ChallengingConfig} : UINewEnvironment(method, cfg)

\* switchLearningMethod(method): a new environment of the chosen method with
\* the configuration the page holds, which is the one of its environment.
UISwitchLearningMethod ==
    /\ NoHandler
    /\ \E m \in Methods : UINewEnvironment(m, config)

\* resetEnvironment(), the handler of the Reset button, which is disabled
\* while isRunning is true: environment.reset(); environment.resetPosition();
\* then convertGridToCellFormat, whose TypeError ends the handler with the
\* environment reset.
UIResetEnvironment ==
    /\ NoHandler
    /\ ~ui.isRunning
    /\ IF method = "sarsa" /\ SInitializeGrid(config) = TypeError
         THEN /\ lastResult' = Threw("reset")
              /\ UNCHANGED <<grid, qTable, currentPosition, currentAction,
                             episodeCount, totalSteps, minRewardSeen,
                             maxRewardSeen, rewardHistory, committed>>
         ELSE /\ grid' = IF method = "qlearning" THEN QInitializeGrid(config)
                         ELSE SInitializeGrid(config)
              /\ qTable' = IF method = "qlearning" THEN qTable
                           ELSE SZeroTable(config)
              /\ currentPosition' = config.startPosition
              /\ currentAction' \in IF method = "qlearning" THEN {currentAction}
                                    ELSE ChooseInitialAction
              /\ episodeCount' = IF method = "qlearning" THEN episodeCount ELSE 0
              /\ totalSteps' = IF method = "qlearning" THEN totalSteps ELSE 0
              /\ minRewardSeen' = Infinity
              /\ maxRewardSeen' = NegInfinity
              /\ rewardHistory' = <<>>
              /\ committed' = IF method = "qlearning" THEN committed ELSE "none"
              /\ lastResult' = IF ConvertThrows(method, config, grid', qTable')
                                 THEN Threw("resetEnvironment")
                               ELSE Void("resetPosition")
    /\ lastUpdate' = NoUpdate
    /\ UNCHANGED <<method, config, pc, ep, nSteps, ui>>

\* A run whose environment the page has replaced comes to its end.
UIDetachedFinish ==
    /\ NoHandler
    /\ \E i \in 1 .. Len(ui.runs) :
         /\ ui.runs[i].detached
         /\ ui' = Finished(i)
    /\ UNCHANGED <<uiFrame, lastResult>>

\* The page: its handlers, the calls they make, and the steps of a
\* runEpisode() call in progress.
NextUI ==
    \/ UIRunEpisodeClick
    \/ UICallResetPosition
    \/ UIAfterResetPosition
    \/ UICallStep
    \/ UIAfterStep
    \/ UIRunEpisodeResume
    \/ UIRunMultipleClick
    \/ UICallRunEpisode
    \/ UIAfterEpisode
    \/ UIRunMultipleResume
    \/ UIConfigChange
    \/ UISwitchConfiguration
    \/ UISwitchLearningMethod
    \/ UIResetEnvironment
    \/ UIDetachedFinish
    \/ QRunEpisodeIter
    \/ QRunEpisodeReturn
    \/ SRunEpisodeIter
    \/ SRunEpisodeReturn

SpecUI == InitUI /\ [][NextUI]_vars


\* ------------------------------------------------------------------------
\* Vocabulary of the properties, defined from the grid geometry alone
\* ------------------------------------------------------------------------

\* The unit displacement of an action.
Delta(a) ==
    CASE a = "up" -> <<-1, 0>> [] a = "down" -> <<1, 0>>
      [] a = "left" -> <<0, -1>> [] a = "right" -> <<0, 1>>

\* The cell one unit away from pos in the direction of a.
Dest(pos, a) == Pos(pos.row + Delta(a)[1], pos.col + Delta(a)[2])

\* The actions that stay inside the grid from pos.
InBoundsActions(cfg, pos) == {a \in ActionSet : InGrid(cfg, Dest(pos, a))}

\* The in-bounds actions whose destination is not a hazard.
SafeActions(cfg, pos) ==
    {a \in InBoundsActions(cfg, pos) : Dest(pos, a) \notin cfg.hazardPositions}

Range(seq) == {seq[i] : i \in 1 .. Len(seq)}

\* The greatest number of a non-empty finite set.
SetMax(S) == CHOOSE x \in S : \A y \in S : ~RLt(x, y)

\* The position of an action in the order up, down, left, right.
Rank(a) == CHOOSE i \in 1 .. 4 : Actions[i] = a

\* old + alpha * (r + gamma * boot - old)
TDUpdate(cfg, old, r, boot) ==
    RAdd(old, RMul(cfg.learningRate,
                   RSub(RAdd(r, RMul(cfg.discountFactor, boot)), old)))

\* The maximum of Q(n, a') over the actions that stay inside the grid from
\* n, in the Q-Learning table g (0 when there is none).
BootstrapMax(cfg, g, n) ==
    IF InBoundsActions(cfg, n) = {} THEN Zero
    ELSE SetMax({g[n.row][n.col].qValues[a] : a \in InBoundsActions(cfg, n)})

\* The entry of (pos, a) in the flat SARSA table.
FlatIndex(cfg, pos, a) == (pos.row * cfg.gridSize + pos.col) * 4 + (Rank(a) - 1)

\* ------------------------------------------------------------------------
\* C1
\* ------------------------------------------------------------------------

\* The scenario of the specification: gridSize 2, start (0,0), goal (1,1),
\* no hazards, alpha 1/2, gamma 9/10, step reward -1, epsilon 0, with
\* Q((0,0),right) = 5 and Q((0,1),down) = 5 seeded.
ExampleConfig ==
    BaseConfig([gridSize |-> 2, startPosition |-> Pos(0, 0),
                goalPosition |-> Pos(1, 1), hazardPositions |-> {}], Zero)

ExampleGrid ==
    [QInitializeGrid(ExampleConfig) EXCEPT ![0][0].qValues["right"] = R(5),
                                           ![0][1].qValues["down"] = R(5)]

\* One step from (0,0) in the scenario goes right to (0,1) with reward -1
\* and sets Q((0,0),right) to 4.25, leaving the rest of the table alone.
ExampleStep ==
    /\ QChooseAction(ExampleConfig, ExampleGrid, Pos(0, 0), ExampleConfig.epsilon)
         = {"right"}
    /\ LET m == QMove(ExampleConfig, ExampleGrid, Pos(0, 0), "right")
       IN  /\ m.next = Pos(0, 1)
           /\ m.reward = R(-1)
           /\ m.grid = [ExampleGrid EXCEPT ![0][0].qValues["right"] = <<17, 4>>]

\* C1: every value update of the Q-Learning environment (in step() and in
\* each iteration of runEpisode()), from s with action a, destination s' and
\* reward r, sets Q(s,a) to Q_old(s,a) + alpha*(r + gamma*M - Q_old(s,a)),
\* M being the maximum of Q(s',.) over the actions that stay inside the grid
\* from s', and changes no other entry; the scenario of the specification
\* yields 4.25.
C1_QLearningUpdate ==
    /\ ExampleStep
    /\ [][(method = "qlearning" /\ lastUpdate'.seq > 0) =>
            LET u == lastUpdate'
                s == u.state
                old == grid[s.row][s.col].qValues[u.action]
            IN  grid' = [grid EXCEPT ![s.row][s.col].qValues[u.action] =
                           TDUpdate(config, old, u.reward,
                                    BootstrapMax(config, grid, u.nextState))]
         ]_vars

\* A Q-Learning update has just entered a cell with an out-of-bounds action
\* whose in-bounds actions all have a negative value: the maximum over all
\* four actions (0) differs from the maximum over the in-bounds ones.
C1_Witness ==
    /\ method = "qlearning"
    /\ lastUpdate.seq > 0
    /\ lastUpdate.nextState # lastUpdate.state
    /\ InBoundsActions(config, lastUpdate.nextState) # ActionSet
    /\ RLt(BootstrapMax(config, grid, lastUpdate.nextState), Zero)

\* ------------------------------------------------------------------------
\* C2
\* ------------------------------------------------------------------------

\* C2: every value update of the SARSA environment, from s with executed
\* action a, destination s', reward r and next action a' (the action the
\* same step committed to for s'), sets Q(s,a) to
\* Q_old(s,a) + alpha*(r + gamma*Q(s',a') - Q_old(s,a)) and changes no other
\* entry of the table.
C2_SarsaUpdate ==
    [][(method = "sarsa" /\ lastUpdate'.seq > 0) =>
         LET u == lastUpdate'
             i == FlatIndex(config, u.state, u.action)
             j == FlatIndex(config, u.nextState, u.nextAction)
         IN  /\ u.nextAction = currentAction'
             /\ qTable' = [qTable EXCEPT ![i] =
                             TDUpdate(config, qTable[i], u.reward, qTable[j])]
      ]_vars

\* A SARSA update has just used a next action a' whose value is below that
\* of another selectable action of s': Q(s',a') is not the maximum.
C2_Witness ==
    /\ method = "sarsa"
    /\ lastUpdate.seq > 0
    /\ lastUpdate.nextState # lastUpdate.state
    /\ InGrid(config, lastUpdate.nextState)
    /\ \E b \in SafeActions(config, lastUpdate.nextState) :
         /\ FlatIndex(config, lastUpdate.nextState, b) \in DOMAIN qTable
         /\ RLt(qTable[FlatIndex(config, lastUpdate.nextState, lastUpdate.nextAction)],
                qTable[FlatIndex(config, lastUpdate.nextState, b)])

\* ------------------------------------------------------------------------
\* C3
\* ------------------------------------------------------------------------

\* C3: a SARSA step that follows another step with no resetPosition(),
\* reset() or runEpisode() call between them executes, and reports, exactly
\* the next action the earlier step selected and used in its update.
C3_OnPolicyCommitment ==
    [][(method = "sarsa" /\ lastUpdate'.seq > 0 /\ committed # "none") =>
         /\ lastUpdate'.action = committed
         /\ (pc = "idle" /\ lastResult'.kind = "step")
              => lastResult'.step.action = committed
      ]_vars

\* A SARSA step has just executed the action committed by the step before
\* it, and moved the agent.
C3_Witness ==
    /\ method = "sarsa"
    /\ lastUpdate.seq > 0
    /\ lastUpdate.committedBefore # "none"
    /\ lastUpdate.action = lastUpdate.committedBefore
    /\ lastUpdate.nextState # lastUpdate.state

\* ------------------------------------------------------------------------
\* C4
\* ------------------------------------------------------------------------

\* The agent stands on the goal cell or on a hazard cell.
OnTerminalCell ==
    currentPosition = config.goalPosition
    \/ currentPosition \in config.hazardPositions

\* C4: a step() call made while the agent stands on the goal or on a hazard
\* returns null and leaves the position, the value table, the counters and
\* the running reward statistics (and the rest of the environment) as they
\* were.
C4_TerminalStepIsNoOp ==
    [][(pc = "idle" /\ pc' = "idle" /\ lastResult'.call = "step" /\ OnTerminalCell) =>
         (lastResult'.kind = "null" /\ UNCHANGED envVars)
      ]_vars

\* step() has just returned null on a hazard cell the agent walked onto.
C4_Witness ==
    /\ lastResult.kind = "null"
    /\ currentPosition \in config.hazardPositions
    /\ nSteps > 0

\* ------------------------------------------------------------------------
\* C5
\* ------------------------------------------------------------------------

\* C5: for every cell of the grid, getValidActions holds exactly the
\* in-bounds actions (Q-Learning), or exactly the in-bounds actions whose
\* destination is not a hazard (SARSA); so never an out-of-bounds action.
C5_ValidActions ==
    \A pos \in Cells(config) :
        IF method = "qlearning"
          THEN Range(QGetValidActions(config, pos)) = InBoundsActions(config, pos)
          ELSE Range(SGetValidActions(config, grid, pos)) = SafeActions(config, pos)

\* A SARSA grid, after some step, with a cell where an in-bounds action is
\* left out because it leads onto a hazard.
C5_Witness ==
    /\ method = "sarsa"
    /\ nSteps > 0
    /\ \E pos \in Cells(config) :
         /\ SafeActions(config, pos) # InBoundsActions(config, pos)
         /\ Range(SGetValidActions(config, grid, pos)) # {}

\* ------------------------------------------------------------------------
\* C6
\* ------------------------------------------------------------------------

\* C6: when updateConfig has just returned, the grid is the one built from
\* the new configuration and the value table is all zero, with one entry
\* per cell and action of the new gridSize (both environments).
C6_UpdateConfigReinitializes ==
    lastResult.call = "updateConfig" =>
        IF method = "qlearning"
          THEN /\ DOMAIN grid = 0 .. config.gridSize - 1
               /\ \A pos \in Cells(config) :
                    /\ pos.col \in DOMAIN grid[pos.row]
                    /\ \A a \in ActionSet :
                         grid[pos.row][pos.col].qValues[a] = Zero
               /\ grid = QInitializeGrid(config)
          ELSE /\ grid = SInitializeGrid(config)
               /\ DOMAIN qTable = 0 .. config.gridSize * config.gridSize * 4 - 1
               /\ \A i \in DOMAIN qTable : qTable[i] = Zero

\* ------------------------------------------------------------------------
\* C7
\* ------------------------------------------------------------------------

\* C7: the agent's current position lies within [0, gridSize) x [0, gridSize)
\* of the current configuration in every reachable state (both
\* environments; every configuration keeps start, goal and hazards inside
\* its grid).
C7_PositionInGrid == InGrid(config, currentPosition)

\* ------------------------------------------------------------------------
\* C8
\* ------------------------------------------------------------------------

\* C8: every executed step (one that performs a value update) uses an
\* action that is in-bounds for the cell it starts from and ends on the
\* cell exactly one unit away in the direction of that action (both
\* environments).
C8_UnitMoves ==
    lastUpdate.seq > 0 =>
        /\ lastUpdate.action \in InBoundsActions(config, lastUpdate.state)
        /\ lastUpdate.nextState = Dest(lastUpdate.state, lastUpdate.action)

\* ------------------------------------------------------------------------
\* C9
\* ------------------------------------------------------------------------

\* C9: in the SARSA environment no executed step ends on a hazard cell, no
\* step() returns hitHazard = true and no runEpisode() returns
\* hitHazard = true.
C9_SarsaAvoidsHazards ==
    method = "sarsa" =>
        /\ lastUpdate.seq > 0 =>
             lastUpdate.nextState \notin config.hazardPositions
        /\ lastResult.kind = "step" => ~lastResult.step.hitHazard
        /\ lastResult.kind = "episode" => ~lastResult.hitHazard

\* ------------------------------------------------------------------------
\* C10
\* ------------------------------------------------------------------------

\* a is a member of V whose value q[a] is the greatest over V and, among
\* the members with that value, the first in the order up, down, left,
\* right.
IsFirstMax(a, V, q) ==
    /\ a \in V
    /\ \A b \in V : ~RLt(q[a], q[b])
    /\ \A b \in V : q[b] = q[a] => Rank(a) <= Rank(b)

\* The valid actions of pos in the current environment.
ValidHere(pos) ==
    IF method = "qlearning" THEN Range(QGetValidActions(config, pos))
    ELSE Range(SGetValidActions(config, grid, pos))

\* The values of the valid actions of pos in the current value table.
ValuesHere(pos) ==
    IF method = "qlearning"
      THEN [a \in ValidHere(pos) |-> grid[pos.row][pos.col].qValues[a]]
      ELSE [a \in ValidHere(pos) |-> qTable[FlatIndex(config, pos, a)]]

\* C10: at every cell that has a valid action (and, in SARSA, whose table
\* entries exist), chooseAction with the exploration branch excluded,
\* getBestValidAction and the cell's getPolicy entry all return the valid
\* action of greatest value that comes first in up, down, left, right.
C10_GreedySelection ==
    \A pos \in Cells(config) :
        IF method = "qlearning"
          THEN ValidHere(pos) # {} =>
                 /\ \A a \in QChooseAction(config, grid, pos, Zero) :
                       IsFirstMax(a, ValidHere(pos), ValuesHere(pos))
                 /\ QChooseAction(config, grid, pos, Zero) # {}
                 /\ IsFirstMax(QGetBestValidAction(config, grid, pos),
                               ValidHere(pos), ValuesHere(pos))
                 /\ IsFirstMax(QGetPolicy(config, grid, pos),
                               ValidHere(pos), ValuesHere(pos))
          ELSE (ValidHere(pos) # {} /\ SGreedyReturns(config, grid, qTable, pos)) =>
                 /\ \A a \in SChooseAction(config, grid, qTable, pos, Zero) :
                       IsFirstMax(a, ValidHere(pos), ValuesHere(pos))
                 /\ SChooseAction(config, grid, qTable, pos, Zero) # {}
                 /\ IsFirstMax(SGetBestValidAction(config, grid, qTable, pos),
                               ValidHere(pos), ValuesHere(pos))
                 /\ IsFirstMax(SGetPolicy(config, grid, qTable, pos),
                               ValidHere(pos), ValuesHere(pos))

\* Some cell's greedy action is one of two valid actions tied at the
\* maximum, and a valid action earlier in the order has a lower, learned
\* value: the selection skipped it and broke the tie.
C10_Witness ==
    /\ method = "qlearning"
    /\ \E pos \in Cells(config) :
         \E a, b, c \in ValidHere(pos) :
            /\ a = QGetBestValidAction(config, grid, pos)
            /\ b # a
            /\ ValuesHere(pos)[b] = ValuesHere(pos)[a]
            /\ RLt(ValuesHere(pos)[c], ValuesHere(pos)[a])
            /\ Rank(c) < Rank(a)

\* ------------------------------------------------------------------------
\* C11
\* ------------------------------------------------------------------------

\* Every action the environment's policy can select at pos in the current
\* state: chooseAction as step() calls it, with this.config.epsilon in
\* Q-Learning and with getCurrentEpsilon() in SARSA.
PolicyChoices(pos) ==
    IF method = "qlearning"
      THEN QChooseAction(config, grid, pos, config.epsilon)
      ELSE SChooseAction(config, grid, qTable, pos,
                         GetCurrentEpsilon(config, episodeCount))

\* C11: when the configured epsilon is 0, the policy can select exactly one
\* action at every cell of the grid in the current value table, whatever
\* minEpsilon and the number of completed episodes are (both environments).
C11_ZeroEpsilonIsDeterministic ==
    config.epsilon = Zero =>
        \A pos \in Cells(config) : Cardinality(PolicyChoices(pos)) = 1

\* ------------------------------------------------------------------------
\* C12
\* ------------------------------------------------------------------------

\* The value table has one entry per cell and action of the current
\* gridSize, and every entry is 0.
TableAllZero ==
    IF method = "qlearning"
      THEN /\ DOMAIN grid = 0 .. config.gridSize - 1
           /\ \A pos \in Cells(config) :
                /\ pos.col \in DOMAIN grid[pos.row]
                /\ \A a \in ActionSet : grid[pos.row][pos.col].qValues[a] = Zero
      ELSE /\ DOMAIN qTable = 0 .. config.gridSize * config.gridSize * 4 - 1
           /\ \A i \in DOMAIN qTable : qTable[i] = Zero

\* The running reward statistics are those of a new environment.
StatsCleared ==
    /\ minRewardSeen = Infinity
    /\ maxRewardSeen = NegInfinity
    /\ rewardHistory = <<>>

\* reset() was the last call made, and it has returned.
JustReset == pc = "idle" /\ lastResult.call = "reset"

\* C12: whenever reset() has just returned, every value-table entry is 0
\* and the reward statistics are cleared; and a reset() that directly
\* follows a reset() leaves the table and the statistics as the first one
\* left them (both environments).
C12_ResetClears ==
    /\ [](JustReset => (TableAllZero /\ StatsCleared))
    /\ [][(JustReset /\ JustReset') =>
            UNCHANGED <<grid, qTable, minRewardSeen, maxRewardSeen, rewardHistory>>
         ]_vars

\* reset() has just returned in an environment that had executed steps: the
\* SARSA step counter is back at 0 while the model has counted updates.
C12_Witness ==
    /\ JustReset
    /\ nSteps > 0
    /\ method = "sarsa"
    /\ totalSteps = 0

\* ------------------------------------------------------------------------
\* C13
\* ------------------------------------------------------------------------

\* C13: a resetPosition() call sets the current position to the configured
\* start and leaves the configuration, the grid, the value table, the
\* episode and step counters and the reward statistics as they were (both
\* environments).
C13_ResetPositionFrame ==
    [][(pc = "idle" /\ pc' = "idle" /\ lastResult'.call = "resetPosition") =>
         /\ currentPosition' = config.startPosition
         /\ UNCHANGED <<config, grid, qTable, episodeCount, totalSteps,
                        minRewardSeen, maxRewardSeen, rewardHistory>>
      ]_vars

\* resetPosition() has just returned in an environment whose value table
\* holds learned (non-zero) values.
C13_Witness ==
    /\ pc = "idle"
    /\ lastResult.call = "resetPosition"
    /\ currentPosition = config.startPosition
    /\ nSteps > 0
    /\ ~TableAllZero

\* ------------------------------------------------------------------------
\* C14
\* ------------------------------------------------------------------------

\* C14: a runEpisode() call made with configured epsilon 0, while the value
\* table at the start cell strictly favoured the action that leads from the
\* start onto the goal, returns steps = 1, reachedGoal = true and
\* hitHazard = false, whatever maxStepsPerEpisode >= 1 is (both
\* environments).
C14_SeededEpisodeReachesGoal ==
    [][(/\ pc = "runEpisode"
        /\ pc' = "idle"
        /\ lastResult'.kind = "episode"
        /\ config.maxStepsPerEpisode >= 1
        /\ config.epsilon = Zero
        /\ ep.favoured # "none"
        /\ Dest(config.startPosition, ep.favoured) = config.goalPosition) =>
          /\ lastResult'.steps = 1
          /\ lastResult'.reachedGoal
          /\ ~lastResult'.hitHazard
      ]_vars

\* ------------------------------------------------------------------------
\* C15
\* ------------------------------------------------------------------------

\* The cell an episode with result res ended on: the nextState of its last
\* history entry, the start cell when it made no step.
EndCell(res) ==
    IF res.history = <<>> THEN config.startPosition
    ELSE res.history[Len(res.history)].nextState

\* C15: in the result of every runEpisode(), reachedGoal and hitHazard are
\* not both true, reachedGoal is true exactly when the episode ended on the
\* goal, hitHazard exactly when it ended on a hazard, and both are false
\* only when the episode used all its steps and ended on a non-terminal
\* cell (both environments).
C15_EpisodeFlags ==
    lastResult.kind = "episode" =>
        LET r == lastResult
            end == EndCell(r)
        IN  /\ ~(r.reachedGoal /\ r.hitHazard)
            /\ r.reachedGoal <=> (end = config.goalPosition)
            /\ r.hitHazard <=> (end \in config.hazardPositions)
            /\ (~r.reachedGoal /\ ~r.hitHazard) =>
                 /\ r.steps = config.maxStepsPerEpisode
                 /\ end # config.goalPosition
                 /\ end \notin config.hazardPositions

\* ------------------------------------------------------------------------
\* C16
\* ------------------------------------------------------------------------

\* The sum of the rewards of the entries of a history.
RECURSIVE SumRewards(_)
SumRewards(h) ==
    IF h = <<>> THEN Zero ELSE RAdd(SumRewards(Tail(h)), Head(h).reward)

\* The entries of h form a path that starts at cell start.
ConnectedFrom(start, h) ==
    \A i \in 1 .. Len(h) :
        h[i].state = IF i = 1 THEN start ELSE h[i - 1].nextState

\* A runEpisode() call in progress is not stuck: its loop has ended (the
\* step limit, or a terminal cell), or the next iteration has an action to
\* take (Q-Learning) or a way for step() to end (SARSA).
EpisodeCanProceed ==
    \/ ep.steps >= config.maxStepsPerEpisode
    \/ /\ method = "qlearning"
       /\ \/ QTerminal(config, ep.pos)
          \/ QChooseAction(config, grid, ep.pos, config.epsilon) # {}
    \/ /\ method = "sarsa"
       /\ \E o \in SStepOutcomes : WithinBudget(o)

\* C16: a runEpisode() call in progress has made at most maxStepsPerEpisode
\* steps, can always continue, and everything it does either ends the call
\* or adds one to its step count (so it ends within maxStepsPerEpisode
\* steps); and in every result steps is the length of history, totalReward
\* the sum of the history's rewards, and the history a connected path from
\* the start cell (both environments).
C16_EpisodeBoundedAndConsistent ==
    /\ [](pc = "runEpisode" =>
            /\ ep.steps <= config.maxStepsPerEpisode
            /\ EpisodeCanProceed)
    /\ [](lastResult.kind = "episode" =>
            /\ lastResult.steps <= config.maxStepsPerEpisode
            /\ lastResult.steps = Len(lastResult.history)
            /\ lastResult.totalReward = SumRewards(lastResult.history)
            /\ ConnectedFrom(config.startPosition, lastResult.history))
    /\ [][(pc = "runEpisode") =>
            (pc' = "idle" \/ (pc' = "runEpisode" /\ ep'.steps = ep.steps + 1))
         ]_vars

\* ------------------------------------------------------------------------
\* C19
\* ------------------------------------------------------------------------

\* The base reward the current environment gives for a move into cell d:
\* rawReward(d) in Q-Learning, getReward(d) in SARSA.
BaseRewardInto(d) ==
    IF method = "qlearning" THEN RawReward(config, d)
    ELSE SGetReward(config, grid, d)

\* The bonus of the RewardPosition located at d (the first one, should
\* there be several), 0 when there is none.
BonusAt(cfg, d) ==
    LET rps == cfg.rewardPositions
        I == {i \in 1 .. Len(rps) : rps[i].position = d}
    IN  IF I = {} THEN Zero
        ELSE rps[CHOOSE i \in I : \A j \in I : i <= j].reward

\* rewards.goal on the goal, else rewards.hazard on a hazard, else
\* rewards.step plus the bonus at d.
ExpectedBaseReward(cfg, d) ==
    IF d = cfg.goalPosition THEN cfg.rewards.goal
    ELSE IF d \in cfg.hazardPositions THEN cfg.rewards.hazard
    ELSE RAdd(cfg.rewards.step, BonusAt(cfg, d))

\* C19: for every cell d of the grid, the base reward of a move into d is
\* rewards.goal if d is the goal, else rewards.hazard if d is a hazard, else
\* rewards.step plus the bonus of the RewardPosition at d (both
\* environments).
C19_BaseReward ==
    \A d \in Cells(config) :
        BaseRewardInto(d) = ExpectedBaseReward(config, d)

\* ------------------------------------------------------------------------
\* C20
\* ------------------------------------------------------------------------

\* The distance of p and q under the metric: manhattan, euclidean or
\* chebyshev.
MetricDistance(metric, p, q) ==
    LET dr == Abs(p.row - q.row)
        dc == Abs(p.col - q.col)
    IN  IF metric = "chebyshev" THEN R(IF dr >= dc THEN dr ELSE dc)
        ELSE IF metric = "euclidean" THEN MathSqrt(R(dr * dr + dc * dc))
        ELSE R(dr + dc)

\* (dist(s, goal) - dist(d, goal)) * heuristicWeight when the heuristics are
\* enabled, 0 when they are not.
ExpectedHeuristicTerm(cfg, s, d) ==
    IF cfg.useDirectionalHeuristics
      THEN RMul(RSub(MetricDistance(cfg.heuristicMethod, s, cfg.goalPosition),
                     MetricDistance(cfg.heuristicMethod, d, cfg.goalPosition)),
                cfg.heuristicWeight)
      ELSE Zero

\* C20: in the Q-Learning environment the reward of a move from any cell s
\* by any in-bounds action to d is the base reward of d plus
\* (dist(s,goal) - dist(d,goal)) * heuristicWeight when the heuristics are
\* enabled (nothing for weight 0; +1 / -1 per cell closer / farther for
\* manhattan with weight 1), and the base reward alone when they are
\* disabled.
C20_HeuristicReward ==
    method = "qlearning" =>
        \A s \in Cells(config) : \A a \in InBoundsActions(config, s) :
            QMove(config, grid, s, a).reward =
                RAdd(ExpectedBaseReward(config, Dest(s, a)),
                     ExpectedHeuristicTerm(config, s, Dest(s, a)))

\* ------------------------------------------------------------------------
\* train(): the results it returns and the exploration schedule
\* ------------------------------------------------------------------------

\* The average recorded in an EpisodeResult is a number below the
\* convergence threshold (the average of no deltas, 0 / 0, is not).
AvgBelow(res) ==
    /\ res.averageQChange # NaN
    /\ RLt(res.averageQChange, config.convergenceThreshold)

\* The list train() returned: between 1 and maxEpisodes results numbered
\* 1..n; shorter than maxEpisodes only if the last result's average is below
\* the threshold; no result before the last has an average below the
\* threshold; a result of zero steps never has.
TrainResultsWellFormed(rs) ==
    LET n == Len(rs)
    IN  /\ config.maxEpisodes >= 1 => n \in 1 .. config.maxEpisodes
        /\ \A i \in 1 .. n : rs[i].episode = i
        /\ n < config.maxEpisodes => AvgBelow(rs[n])
        /\ \A i \in 1 .. n - 1 : ~AvgBelow(rs[i])
        /\ \A i \in 1 .. n : rs[i].steps = 0 => ~AvgBelow(rs[i])

\* While train() runs, the iteration it stands at can continue: the inner
\* loop takes a step, or the episode ends.
TrainCanProceed ==
    \/ /\ Len(ep.history) < config.maxStepsPerEpisode
       /\ ~QTerminal(config, ep.pos)
       /\ QChooseAction(config, grid, ep.pos, ep.epsilon) # {}
    \/ Len(ep.history) >= config.maxStepsPerEpisode
    \/ QTerminal(config, ep.pos)

\* C17: train() terminates and returns n results, 1 <= n <= maxEpisodes,
\* numbered 1..n in order; it stops before maxEpisodes exactly when an
\* episode's average absolute delta is below convergenceThreshold, that
\* episode being the last one returned, and no earlier result has an average
\* below the threshold (an episode of zero steps has the average 0 / 0,
\* which is not below any threshold).  Termination: the pair (episode
\* number, steps of the episode) is bounded by (maxEpisodes,
\* maxStepsPerEpisode), every transition of a running train() increases it
\* lexicographically or returns, and a running train() can always proceed.
C17_TrainResults ==
    /\ [](lastResult.kind = "train" => TrainResultsWellFormed(lastResult.results))
    /\ [](pc = "train" =>
            /\ ep.n \in 1 .. config.maxEpisodes
            /\ Len(ep.results) = ep.n - 1
            /\ Len(ep.history) <= config.maxStepsPerEpisode
            /\ \A i \in 1 .. Len(ep.results) : ~AvgBelow(ep.results[i])
            /\ TrainCanProceed)
    /\ [][pc = "train" =>
            \/ pc' = "idle" /\ lastResult'.kind = "train"
                            /\ Len(lastResult'.results) = ep.n
            \/ pc' = "train" /\ ep'.n = ep.n
                             /\ Len(ep'.history) = Len(ep.history) + 1
            \/ pc' = "train" /\ ep'.n = ep.n + 1 /\ ep'.history = <<>>]_vars

\* train() returned after one episode of at least one step although
\* maxEpisodes allowed a second: it stopped early.
C17_Witness ==
    /\ pc = "idle"
    /\ lastResult.kind = "train"
    /\ Len(lastResult.results) = 1
    /\ config.maxEpisodes = 2
    /\ lastResult.results[1].steps > 0
    /\ AvgBelow(lastResult.results[1])

\* eps_k of the configuration: eps_1 = epsilon,
\* eps_(k+1) = max(minEpsilon, eps_k * epsilonDecay).
RECURSIVE ExpectedEpsilon(_, _)
ExpectedEpsilon(cfg, k) ==
    IF k <= 1 THEN cfg.epsilon
    ELSE LET prev == RMul(ExpectedEpsilon(cfg, k - 1), cfg.epsilonDecay)
         IN  IF RLt(prev, cfg.minEpsilon) THEN cfg.minEpsilon ELSE prev

\* epsilonDecay <= 1 and epsilon >= minEpsilon
DecayingSchedule ==
    /\ ~RLt(R(1), config.epsilonDecay)
    /\ ~RLt(config.epsilon, config.minEpsilon)

\* C18: in train() the exploration rate used in episode 1 is the configured
\* epsilon and the rate used in episode k+1 is max(minEpsilon, eps_k *
\* epsilonDecay); with epsilonDecay <= 1 and epsilon >= minEpsilon the rate
\* never rises from one episode to the next and is never below minEpsilon;
\* train() leaves the configuration, and so the epsilon getConfig() returns,
\* as it was.
C18_EpsilonSchedule ==
    /\ [](pc = "train" =>
            /\ ep.epsilon = ExpectedEpsilon(config, ep.n)
            /\ lastUpdate.seq # 0 => /\ lastUpdate.by = "train"
                                     /\ lastUpdate.epsilon = ExpectedEpsilon(config, ep.n)
            /\ DecayingSchedule => ~RLt(ep.epsilon, config.minEpsilon))
    /\ [][(pc = "train" /\ pc' = "train" /\ DecayingSchedule) =>
            ~RLt(ep.epsilon, ep'.epsilon)]_vars
    /\ [][(pc = "train" \/ pc' = "train") => config' = config]_vars

\* The second episode of a train() takes a step with the rate at the floor:
\* epsilon * epsilonDecay is below minEpsilon, minEpsilon is below epsilon.
C18_Witness ==
    /\ pc = "train"
    /\ ep.n = 2
    /\ lastUpdate.seq # 0
    /\ lastUpdate.epsilon = config.minEpsilon
    /\ RLt(RMul(config.epsilon, config.epsilonDecay), config.minEpsilon)
    /\ RLt(config.minEpsilon, config.epsilon)

\* ------------------------------------------------------------------------
\* normalize(): min-max scaling
\* ------------------------------------------------------------------------

\* The least and the greatest element of a non-empty sequence of rewards.
LeastOf(seq) ==
    CHOOSE x \in Range(seq) : \A y \in Range(seq) : ~RLt(y, x)
GreatestOf(seq) ==
    CHOOSE x \in Range(seq) : \A y \in Range(seq) : ~RLt(x, y)

\* (r - min) / (max - min) over the rewards seen, r included; 0 when they
\* are all equal.
ExpectedNormalized(seen, r) ==
    LET lo == LeastOf(seen)
        hi == GreatestOf(seen)
    IN  IF lo = hi THEN Zero
        ELSE <<(r[1] - lo[1]), (hi[1] - lo[1])>>

\* a and b are the same number (a, b finite fractions).
SameNumber(a, b) == a[2] # 0 /\ b[2] # 0 /\ a[1] * b[2] = b[1] * a[2]

\* C21: with min-max normalization enabled (normalizeRewards set and the
\* method not z-score), normalize(r) folds r into the
\* running minimum and maximum of the rewards seen since construction or
\* the last reset() and returns (r - min) / (max - min) over those bounds, 0
\* when max = min; the value is a finite number within [0, 1]; for the
\* rewards 1, 3, 2 the values are 0, 1 and 1/2.
C21_MinMaxNormalize ==
    (/\ lastResult.kind = "normalize"
     /\ config.normalizeRewards
     /\ config.normalizationMethod # "zscore") =>
        LET seen == lastResult.seen
            v == lastResult.value
        IN  /\ minRewardSeen = LeastOf(seen)
            /\ maxRewardSeen = GreatestOf(seen)
            /\ SameNumber(v, ExpectedNormalized(seen, lastResult.arg))
            /\ v # NaN /\ v[2] > 0
            /\ ~RLt(v, Zero) /\ ~RLt(R(1), v)
            /\ seen = <<R(1)>> => v = Zero
            /\ seen = <<R(1), R(3)>> => v = R(1)
            /\ seen = <<R(1), R(3), R(2)>> => v = <<1, 2>>

\* normalize() was called with 1, then 3, then 2 and returned 1/2.
C21_Witness ==
    /\ lastResult.kind = "normalize"
    /\ config.normalizeRewards
    /\ config.normalizationMethod = "minmax"
    /\ lastResult.seen = <<R(1), R(3), R(2)>>
    /\ lastResult.value = <<1, 2>>
    /\ minRewardSeen = R(1)
    /\ maxRewardSeen = R(3)

\* ------------------------------------------------------------------------
\* RLAlgorithmFactory
\* ------------------------------------------------------------------------

\* The environment variables hold a newly constructed environment of class
\* m on the configuration the factory was called with.
FreshEnvironment(m) ==
    /\ method = m
    /\ config = lastResult.config
    /\ currentPosition = config.startPosition
    /\ TableAllZero
    /\ (m = "qlearning") = (qTable = <<>>)
    /\ episodeCount = 0 /\ totalSteps = 0

\* C22: createEnvironment returns a Q-Learning environment for 'qlearning'
\* and a SARSA environment for 'sarsa'; for every other method argument it
\* throws the unknown-learning-method error, constructs nothing and leaves
\* the caller with what it had (no default algorithm).
C22_FactoryDispatch ==
    /\ [](lastResult.call = "createEnvironment" =>
            /\ lastResult.arg = "qlearning" =>
                  lastResult.kind = "created" /\ FreshEnvironment("qlearning")
            /\ lastResult.arg = "sarsa" =>
                  lastResult.kind = "created" /\ FreshEnvironment("sarsa")
            /\ lastResult.arg \notin {"qlearning", "sarsa"} =>
                  /\ lastResult.kind = "threw"
                  /\ lastResult.error = "Unknown learning method")
    /\ [][(lastResult'.call = "createEnvironment" /\ lastResult'.kind = "threw") =>
            UNCHANGED <<method, envVars>>]_vars

\* ------------------------------------------------------------------------
\* Cells without a valid action
\* ------------------------------------------------------------------------

\* C23: in both environments, selecting an action at a cell of the grid
\* that has no valid action returns one of up, down, left, right; a step()
\* from such a cell does not throw and leaves the agent inside the grid.
C23_NoValidActionIsHandled ==
    /\ \A pos \in Cells(config) :
          ValidHere(pos) = {} => PolicyChoices(pos) \subseteq ActionSet
    /\ (lastResult.call = "step" /\ lastResult.kind = "threw") =>
          ValidHere(currentPosition) # {}
    /\ (lastResult.call = "step" /\ lastResult.kind = "step"
          /\ ValidHere(lastResult.step.state) = {}) =>
          InGrid(config, currentPosition)

\* The SARSA agent stood on a start enclosed by hazards, where no action is
\* valid; a step() moved it against the wall, chooseAction returned its
\* fallback 'up' for the same cell, and the next step() executed it.
C23_Witness ==
    /\ method = "sarsa"
    /\ lastResult.call = "step"
    /\ lastResult.kind = "step"
    /\ ValidHere(lastResult.step.state) = {}
    /\ lastResult.step.action = "up"
    /\ lastResult.step.nextState = lastResult.step.state
    /\ committed = "up"
    /\ nSteps = 2

\* ------------------------------------------------------------------------
\* runEpisode(): the agent's position
\* ------------------------------------------------------------------------

\* C25: in both environments runEpisode() starts at the start position and
\* moves the agent with every step: when it has returned,
\* getCurrentPosition() is the final cell of the episode (the nextState of
\* the last history entry, the start position when no step was taken).
C25_EpisodeMovesAgent ==
    (pc = "idle" /\ lastResult.kind = "episode") =>
        /\ lastResult.history # <<>> =>
              lastResult.history[1].state = config.startPosition
        /\ currentPosition = EndCell(lastResult)

\* ------------------------------------------------------------------------
\* train(): the grid of each episode
\* ------------------------------------------------------------------------

\* The state-action pairs the steps of a history updated.
UpdatedPairs(history) ==
    {<<history[i].state, history[i].action>> : i \in 1 .. Len(history)}

\* Every value of the table is 0 except, possibly, those of the pairs in P.
ZeroOutside(P) ==
    \A pos \in Cells(config) : \A a \in ActionSet :
        <<pos, a>> \notin P => grid[pos.row][pos.col].qValues[a] = Zero

\* C26: train() rebuilds the grid and its values at the start of every
\* episode: at the beginning of each episode every state-action value is 0,
\* and the table train() leaves holds only what the steps of the last
\* executed episode wrote.
C26_TrainRebuildsGrid ==
    /\ (pc = "train" /\ ep.history = <<>>) => TableAllZero
    /\ pc = "train" => ZeroOutside(UpdatedPairs(ep.history))
    /\ (pc = "idle" /\ lastResult.kind = "train") =>
          LET rs == lastResult.results
          IN  ZeroOutside(UpdatedPairs(rs[Len(rs)].history))

\* train() returned after two episodes; the first updated a pair that the
\* second did not, and its value is 0 again.
C26_Witness ==
    /\ pc = "idle"
    /\ lastResult.kind = "train"
    /\ Len(lastResult.results) = 2
    /\ \E p \in UpdatedPairs(lastResult.results[1].history) :
          /\ p \notin UpdatedPairs(lastResult.results[2].history)
          /\ grid[p[1].row][p[1].col].qValues[p[2]] = Zero
    /\ ~TableAllZero

\* ------------------------------------------------------------------------
\* runEpisode(): learned values are kept
\* ------------------------------------------------------------------------

\* The value table of the current environment.
ValueTable == [pos \in Cells(config) |-> [a \in ActionSet |-> TableValue(pos, a)]]

\* C28: runEpisode() never rebuilds the learned values (both environments):
\* the call starts and returns with the table as it was, and a step of the
\* episode changes no entry other than the one of the state and action it
\* updates, so the table at the start of a call is the table the previous
\* call left.
C28_EpisodeKeepsValues ==
    [][(pc = "runEpisode" \/ pc' = "runEpisode") =>
         /\ config' = config
         /\ \A pos \in Cells(config) : \A a \in ActionSet :
               ValueTable'[pos][a] # ValueTable[pos][a] =>
                  /\ pc = "runEpisode"
                  /\ lastUpdate'.seq # 0
                  /\ lastUpdate'.state = pos
                  /\ lastUpdate'.action = a]_vars

\* A runEpisode() call of the SARSA environment stands at its first
\* iteration with learned values in the table, after an earlier
\* runEpisode() returned.
C28_Witness ==
    /\ method = "sarsa"
    /\ pc = "runEpisode"
    /\ ep.steps = 0
    /\ lastResult.kind = "episode"
    /\ ~TableAllZero

\* ------------------------------------------------------------------------
\* Terminal cells are never updated
\* ------------------------------------------------------------------------

\* The goal cell and the hazard cells of the grid.
TerminalCells ==
    {pos \in Cells(config) :
        pos = config.goalPosition \/ pos \in config.hazardPositions}

\* The bootstrapped term of the latest update: the greatest value of the
\* successor state over its in-bounds actions (Q-Learning), the value of
\* the successor state and the selected next action (SARSA).
BootstrapTerm ==
    IF method = "qlearning" THEN BootstrapMax(config, grid, lastUpdate.nextState)
    ELSE TableValue(lastUpdate.nextState, lastUpdate.nextAction)

\* C29: under a fixed configuration, in both environments every value of
\* the goal cell and of every hazard cell is 0 after any sequence of step(),
\* runEpisode() and resetPosition() calls, and the bootstrapped term of an
\* update that enters a terminal cell is 0.
C29_TerminalValuesStayZero ==
    /\ \A pos \in TerminalCells : \A a \in ActionSet : TableValue(pos, a) = Zero
    /\ (lastUpdate.seq # 0 /\ lastUpdate.nextState \in TerminalCells) =>
          BootstrapTerm = Zero

\* A step has just entered a terminal cell and updated the value of the
\* cell it left.
C29_Witness ==
    /\ lastUpdate.seq # 0
    /\ lastUpdate.nextState \in TerminalCells
    /\ TableValue(lastUpdate.state, lastUpdate.action) # Zero
    /\ nSteps >= 2

\* ------------------------------------------------------------------------
\* The flags of a StepResult
\* ------------------------------------------------------------------------

\* reachedGoal and hitHazard of a StepResult say whether its nextState is
\* the goal cell, a hazard cell.
FlagsMatch(sr) ==
    /\ sr.reachedGoal = (sr.nextState = config.goalPosition)
    /\ sr.hitHazard = (sr.nextState \in config.hazardPositions)

\* C30: every StepResult the environments produce (returned by step(),
\* stored in the history of runEpisode() or of train()) has reachedGoal =
\* (its nextState is the goal cell) and hitHazard = (its nextState is a
\* hazard cell).
C30_StepResultFlags ==
    /\ lastResult.kind = "step" => FlagsMatch(lastResult.step)
    /\ lastResult.kind = "episode" =>
          \A i \in 1 .. Len(lastResult.history) : FlagsMatch(lastResult.history[i])
    /\ lastResult.kind = "train" =>
          \A k \in 1 .. Len(lastResult.results) :
             \A i \in 1 .. Len(lastResult.results[k].history) :
                FlagsMatch(lastResult.results[k].history[i])

\* ------------------------------------------------------------------------
\* The page: runs in flight
\* ------------------------------------------------------------------------

\* C24: in the page at most one run is in flight at a time: while the
\* animated single-episode loop or the multi-episode loop is suspended at
\* its await (or executing), no second run has started, and isRunning is
\* true for as long as the run is in flight; so the step() and runEpisode()
\* calls of two runs never interleave.
C24_OneRunInFlight ==
    /\ Len(ui.runs) <= 1
    /\ ui.runs # <<>> => ui.isRunning

\* An animated run is suspended at its await after its second step.
C24_Witness ==
    /\ Len(ui.runs) = 1
    /\ ui.runs[1].kind = "episode"
    /\ ui.runs[1].phase = "await"
    /\ ui.runs[1].steps = 2
    /\ ui.isRunning

\* A run is suspended at its await and steps the environment the page
\* holds.
RunSuspended ==
    \E i \in 1 .. Len(ui.runs) :
        ui.runs[i].phase = "await" /\ ~ui.runs[i].detached

\* C27: while a run of the page is in flight and suspended at its await,
\* the configuration and the value table of the environment it steps are
\* changed by nothing but the run's own step() / runEpisode() calls: no
\* transition that leaves the run where it is changes them.
C27_RunOwnsEnvironment ==
    [][(RunSuspended /\ ui' = ui) => UNCHANGED <<config, grid, qTable>>]_vars


====
